---- MODULE Spec2Model ----
(***************************************************************************)
(* A model of the read-only FAT32 driver of cs140e-rust (2-fs/fat32):      *)
(* FAT entry decoding, cluster and chain reads, the File stream            *)
(* (read / seek) and directory iteration.                                  *)
(***************************************************************************)
EXTENDS Integers, Sequences, FiniteSets, TLC

VARIABLES
    \* ---- FatEntry::status applied to one raw value (SpecFat)
    raw,                  \* the raw u32 held by a FatEntry
    decoded,              \* the Status it decoded to, or NotDecoded
    \* ---- the mounted VFat
    bytes_per_sector,     \* VFat.bytes_per_sector
    sectors_per_cluster,  \* VFat.sectors_per_cluster
    data_start_sector,    \* VFat.data_start_sector
    fat,                  \* the FAT: cluster number -> raw u32 entry
    disk,                 \* logical sector number -> its bytes (what device.get returns)
    \* ---- one File handle
    file_size,
    start_cluster,
    absolute_offset,
    curr_cluster,
    \* ---- the call in progress / last completed on the File or the VFat
    pc,                   \* "idle", "read" (inside File::read's loop), "chain", "panicked"
    curr_buf,             \* File::read: length of the not yet filled part of buf
    total,                \* File::read: bytes delivered so far by this call
    got,                  \* File::read: the bytes buf[0..total)
    call,                 \* the arguments and pre-state of the last call
    ret,                  \* its result
    \* ---- what an observer of the run keeps: either every call in full
    \* (origin = "untracked") or the byte stream handed to the caller
    stream,               \* bytes returned by reads since the handle was last positioned
    streamStart,          \* the offset at which that stream starts
    origin,               \* how it was positioned: "open", "Start", or "other"
    \* ---- one Dir handle and the EntryIter made from it
    dir_start,            \* Dir.start_cluster
    chain_curr,           \* read_chain: curr
    chain_buf,            \* read_chain: buf (init_len = 0)
    chain_total,          \* read_chain: total
    entries,              \* EntryIter.entries: the 32-byte records
    next,                 \* EntryIter.next
    yielded,              \* the entries next() has returned so far
    \* ---- FileSystem::open on the mounted VFat
    root_dir_cluster,     \* VFat.root_dir_cluster
    open_path,            \* the bytes of the path open was called with
    parents,              \* open: the stack of resolved entries
    lasts,                \* open: the components still to be walked
    opened,               \* what open returned, Pending while it runs
    finds,                \* the calls of Dir::find this open has made
    \* ---- the block device and VFat::from
    dev_sector_size,      \* device.sector_size()
    device,               \* physical sector number -> its bytes
    dev_reads,            \* the physical sectors read from the device, in order
    dev_writes,           \* the write_sector calls made on the device, in order
    mounted,              \* what VFat::from returned
    sectors_per_fat,      \* VFat.sectors_per_fat
    fat_start_sector,     \* VFat.fat_start_sector
    partition,            \* CachedDevice.partition
    \* ---- the CachedDevice
    cache,                \* CachedDevice.cache: sector number -> CacheEntry
    sector_ret,           \* the last call on the CachedDevice and what it returned
    written,              \* the sectors whose cached copy has been written to
    marked,               \* the sectors get_mut or write_sector has returned
    \* ---- VFat::read_cluster and VFat::read_chain called on their own
    vcall,                \* the call: its arguments, buf as it was handed over
    vret,                 \* what the call returned, and buf as the call left it
    gets,                 \* the sectors the call asked the cache for, in order
    vcurr,                \* read_chain: curr
    vbuf,                 \* read_chain: buf
    vtotal,               \* read_chain: total
    \* ---- Shared<VFat>
    held,                 \* the accesses to the mount state that are held
    reentered,            \* an access was asked for while one was held
    \* ---- the kernel's bin allocator
    region,               \* the start and end given to Allocator::new
    bins,                 \* bin::Allocator.bins: bin index -> its list, head first
    pool,                 \* pool::Allocator's list behind the sentinel: (addr, size)
    allocated,            \* the allocations not yet deallocated
    alloc_ret,            \* the last call on the allocator and what it returned
    \* ---- the build
    overflow_checks,      \* whether integer overflow panics (it wraps otherwise)
    \* ---- the File handles live at once on one mount
    handles,              \* handle -> its File, or Dropped once it is dropped
    \* ---- File::seek while it walks the chain
    seek_to,              \* seek: absolute_offset, the offset asked for
    walk_cluster,         \* seek: curr_cluster
    walk_offset           \* seek: curr_offset

fatVars    == <<raw, decoded>>
vfatVars   == <<bytes_per_sector, sectors_per_cluster, data_start_sector, fat, disk>>
fileVars   == <<file_size, start_cluster, absolute_offset, curr_cluster>>
callVars   == <<pc, curr_buf, total, got, call, ret>>
histVars   == <<stream, streamStart, origin>>
dirVars    == <<dir_start, chain_curr, chain_buf, chain_total, entries, next, yielded>>
openVars   == <<root_dir_cluster, open_path, parents, lasts, opened, finds>>
mountVars  == <<dev_sector_size, device, dev_reads, dev_writes, mounted, sectors_per_fat,
                fat_start_sector, partition>>
cacheVars  == <<cache, sector_ret, written, marked>>
clusterVars == <<vcall, vret, gets, vcurr, vbuf, vtotal>>
sharedVars == <<held, reentered>>
allocVars  == <<region, bins, pool, allocated, alloc_ret>>
buildVars  == <<overflow_checks>>
handleVars == <<handles>>
walkVars   == <<seek_to, walk_cluster, walk_offset>>
vars       == <<fatVars, vfatVars, fileVars, callVars, histVars, dirVars, openVars,
                mountVars, cacheVars, allocVars, buildVars, handleVars, walkVars, clusterVars, sharedVars>>

(***************************************************************************)
(* Machine integers                                                        *)
(***************************************************************************)
\* The model checker's integers are narrower than the program's, so wide
\* values are kept exactly, in parts.
\*
\* A u32 is its reserved high nibble and its low 28 bits: hi * 2^28 + lo.
U32(hi, lo) == [hi |-> hi, lo |-> lo]

\* An i64 or u64 is an anchor plus a small displacement d:
\*   "zero": d        "min": i64::MIN + d (d >= 0)
\*   "max": i64::MAX + d (d <= 0)        "umax": u64::MAX + d (d <= 0)
Wide(a, d) == [a |-> a, d |-> d]
Small(d)   == Wide("zero", d)
I64Min     == Wide("min", 0)
I64Max     == Wide("max", 0)
U64Max     == Wide("umax", 0)

\* x > 0, x < 0 for a wide x
WidePos(x) == x.a \in {"max", "umax"} \/ (x.a = "zero" /\ x.d > 0)
WideNeg(x) == x.a = "min" \/ (x.a = "zero" /\ x.d < 0)
\* x > k for a wide x and a k that fits in a u32
WideGt(x, k) == x.a \in {"max", "umax"} \/ (x.a = "zero" /\ x.d > k)

\* i64 negation: [ovf, val], val being the wrapped result
I64Neg(x) ==
    CASE x.a = "zero" -> [ovf |-> FALSE, val |-> Small(0 - x.d)]
      [] x.a = "max"  -> [ovf |-> FALSE, val |-> Wide("min", 1 - x.d)]
      [] x.a = "min"  -> IF x.d = 0 THEN [ovf |-> TRUE, val |-> I64Min]
                         ELSE [ovf |-> FALSE, val |-> Wide("max", 1 - x.d)]

\* i64 addition k + x for 0 <= k < 2^32: [ovf, val], val being the wrapped result
I64Add(k, x) ==
    CASE x.a = "zero" -> [ovf |-> FALSE, val |-> Small(k + x.d)]
      [] x.a = "min"  -> [ovf |-> FALSE, val |-> Wide("min", k + x.d)]
      [] x.a = "max"  -> IF k + x.d > 0
                           THEN [ovf |-> TRUE, val |-> Wide("min", k + x.d - 1)]
                           ELSE [ovf |-> FALSE, val |-> Wide("max", k + x.d)]

\* `x as u64` of an i64 compared with a u32: x as u64 > k
I64AsU64Gt(x, k) == x.a \in {"min", "max"} \/ (x.a = "zero" /\ (x.d < 0 \/ x.d > k))

Pow2(n) == 2 ^ n

Min(a, b) == IF a <= b THEN a ELSE b

(***************************************************************************)
(* Bounds of the model                                                     *)
(***************************************************************************)
MaxCluster  == 5      \* clusters 2..MaxCluster exist
MaxFileSize == 8      \* file sizes 0..MaxFileSize
MaxBuf      == 11     \* read buffers of 0..MaxBuf bytes

Clusters == 2..MaxCluster

(***************************************************************************)
(* fat.rs: Status and FatEntry::status                                     *)
(***************************************************************************)
Free       == [tag |-> "Free",     val |-> 0]
Reserved   == [tag |-> "Reserved", val |-> 0]
Bad        == [tag |-> "Bad",      val |-> 0]
Data(c)    == [tag |-> "Data",     val |-> c]
Eoc(e)     == [tag |-> "Eoc",      val |-> e]
Unreachable == [tag |-> "unreachable", val |-> 0]
NotDecoded == [tag |-> "none", val |-> 0]

\* self.0 & 0x0FFFFFFF
Low28(v) == v.lo

\* The arms of the match on a 32-bit value x, compared arm by arm; big is
\* whether x >= 2^28 (no arm but `_` matches then), low its low 28 bits.
\* (0x0FFFFFEF = 268435439, 0x0FFFFFF0 = 268435440, 0x0FFFFFFF = 268435455)
MatchArms(big, m) ==
    IF big THEN Unreachable
    ELSE IF m = 0 THEN Free
    ELSE IF m = 1 THEN Reserved
    ELSE IF m >= 2 /\ m <= 268435439 THEN Data(m)
    ELSE IF m >= 268435440 /\ m <= 268435445 THEN Reserved
    ELSE IF m = 268435446 THEN Reserved
    ELSE IF m = 268435447 THEN Bad
    ELSE IF m >= 268435448 /\ m <= 268435455 THEN Eoc(m)
    ELSE Unreachable

\* A decoder that forgets the mask: the reserved high nibble reaches the match.
status_unmasked(v) == MatchArms(v.hi # 0, v.lo)

\* FatEntry::status: `match self.0 & 0x0FFFFFFF { ... }`
status(v) == MatchArms(FALSE, Low28(v))

\* Raw values around every boundary of the match, under every high nibble.
LowSamples ==
    {0, 1, 2, 3, 502, 482, 268435438, 268435439, 268435440, 268435441,
     268435445, 268435446, 268435447, 268435448, 268435449, 268435454, 268435455}
RawSamples == { U32(h, m) : h \in 0..15, m \in LowSamples }

(***************************************************************************)
(* vfat: Shared<VFat>                                                      *)
(***************************************************************************)
\* A guard that goes out of scope without giving the access back.
Dropped_kept(h) == h

\* Shared::borrow and Shared::borrow_mut hand out a guard: one more access
\* is held; the guard going out of scope gives it back.
Borrowed(h) == h + 1
Dropped(h)  == h - 1

\* An access is asked for (while one is held, that is the hard fault); a
\* guard is dropped; a temporary guard is dropped within the same step.
Acquire == held' = Borrowed(held) /\ reentered' = (reentered \/ held > 0)
Release == held' = Dropped(held) /\ UNCHANGED reentered
AcquireRelease ==
    held' = Dropped(Borrowed(held)) /\ reentered' = (reentered \/ held > 0)

(***************************************************************************)
(* vfat.rs: VFat                                                           *)
(***************************************************************************)
\* VFat::cluster_size
cluster_size == sectors_per_cluster * bytes_per_sector

FAT_ENTRY_SIZE == 4

\* A cache whose entries lose their bytes: a sector asked for again comes
\* back as zeroes.
device_get_blank(sector) ==
    IF sector \in DOMAIN cache THEN [o \in DOMAIN disk[sector] |-> 0] ELSE disk[sector]

\* self.device.get(sector): the bytes of the entry the cache holds for the
\* sector, or those get_helper reads from the device to make the entry
device_get(sector) ==
    IF sector \in DOMAIN cache THEN cache[sector].data ELSE disk[sector]

\* VFat::fat_entry, lines 152 and 155: the sector it asks the cache for
fat_entry_sector(cluster) ==
    fat_start_sector + ((cluster * FAT_ENTRY_SIZE) \div bytes_per_sector)

\* `&sector[byte_offset] as *const u32`: the little-endian u32 at byte_offset
EntryAt(sector, byte_offset) ==
    U32(sector[byte_offset + 4] \div 16,
        (sector[byte_offset + 4] % 16) * 16777216 + sector[byte_offset + 3] * 65536
          + sector[byte_offset + 2] * 256 + sector[byte_offset + 1])

\* VFat::fat_entry: the raw entry of `cluster` (a view over the cached
\* sector). `fat` is what the sectors of the first FAT hold; for a cluster
\* with no entry there, the sector computed is one that follows the FAT.
fat_entry(cluster) ==
    IF cluster \in DOMAIN fat /\ fat_entry_sector(cluster) \notin DOMAIN cache
      THEN fat[cluster]
      ELSE EntryAt(device_get(fat_entry_sector(cluster)),
                   (cluster * FAT_ENTRY_SIZE) % bytes_per_sector)

\* VFat::cluster_start_sector. `cluster as u64 - 2` is a u64 subtraction:
\* for a cluster below 2 it panics in a build with overflow checks, and in
\* one without, the product and the sum wrap with it modulo 2^64, to this
\* value where data_start_sector is not below 2 * sectors_per_cluster.
cluster_start_sector(cluster) == data_start_sector + sectors_per_cluster * (cluster - 2)

Ok(bytes)  == [kind |-> "Ok",  n |-> Len(bytes), err |-> "", bytes |-> bytes]
Err(e)     == [kind |-> "Err", n |-> 0, err |-> e, bytes |-> <<>>]
Panic(why) == [kind |-> "Panic", n |-> 0, err |-> why, bytes |-> <<>>]
Pending    == [kind |-> "Pending", n |-> 0, err |-> "", bytes |-> <<>>]

\* A read that takes every sector from its first byte.
SliceRead_whole(sector, from, buflen) ==
    SubSeq(sector, 1, Min(Len(sector), buflen))

\* impl Read for &[u8]: copy min(len(buf), len(slice)) bytes of the slice
\* that starts `from` bytes into the sector.
SliceRead(sector, from, buflen) ==
    SubSeq(sector, from + 1, Min(Len(sector), from + buflen))

\* read_cluster's `for i in sector_offset..sectors_per_cluster` loop: the
\* bytes copied into buf (total = their number).
RECURSIVE SectorLoop(_, _, _, _, _, _)
SectorLoop(start_sector, i, sector_offset, offset_in_sector, buflen, acc) ==
    IF i >= sectors_per_cluster THEN acc
    ELSE LET sector == device_get(start_sector + i)
             part   == IF i = sector_offset
                         THEN SliceRead(sector, offset_in_sector, buflen)
                         ELSE SliceRead(sector, 0, buflen)
             rest   == buflen - Len(part)
         IN  IF rest = 0 THEN acc \o part
             ELSE SectorLoop(start_sector, i + 1, sector_offset,
                             offset_in_sector, rest, acc \o part)

\* read_cluster without the match on the status of the cluster's FAT entry
read_cluster_any(cluster, offset, buflen) ==
    Ok(SectorLoop(cluster_start_sector(cluster), offset \div bytes_per_sector,
                  offset \div bytes_per_sector, offset % bytes_per_sector, buflen, <<>>))

\* VFat::read_cluster(cluster, offset, buf) with len(buf) = buflen
read_cluster(cluster, offset, buflen) ==
    IF status(fat_entry(cluster)).tag \in {"Data", "Eoc"}
      THEN LET sector_offset    == offset \div bytes_per_sector
               offset_in_sector == offset % bytes_per_sector
           IN  IF cluster < 2 /\ overflow_checks
                 THEN Panic("attempt to subtract with overflow")
               ELSE IF ~(sector_offset < sectors_per_cluster)
                 THEN Panic("assertion failed: sector_offset < sectors_per_cluster")
                 ELSE Ok(SectorLoop(cluster_start_sector(cluster), sector_offset,
                                    sector_offset, offset_in_sector, buflen, <<>>))
      ELSE Err("InvalidInput")

\* read_cluster's `for i in sector_offset..sectors_per_cluster` loop: the
\* sectors it passes to self.device.get.
RECURSIVE SectorGets(_, _, _, _, _, _)
SectorGets(start_sector, i, sector_offset, offset_in_sector, buflen, acc) ==
    IF i >= sectors_per_cluster THEN acc
    ELSE LET sector == device_get(start_sector + i)
             part   == IF i = sector_offset
                         THEN SliceRead(sector, offset_in_sector, buflen)
                         ELSE SliceRead(sector, 0, buflen)
             rest   == buflen - Len(part)
         IN  IF rest = 0 THEN Append(acc, start_sector + i)
             ELSE SectorGets(start_sector, i + 1, sector_offset,
                             offset_in_sector, rest, Append(acc, start_sector + i))

\* The sectors read_cluster(cluster, offset, buf) asks the cache for: the
\* one of fat_entry, then those of its loop.
read_cluster_gets(cluster, offset, buflen) ==
    IF status(fat_entry(cluster)).tag \in {"Data", "Eoc"}
         /\ ~(cluster < 2 /\ overflow_checks)
         /\ (offset \div bytes_per_sector) < sectors_per_cluster
      THEN SectorGets(cluster_start_sector(cluster), offset \div bytes_per_sector,
                      offset \div bytes_per_sector, offset % bytes_per_sector, buflen,
                      <<fat_entry_sector(cluster)>>)
      ELSE <<fat_entry_sector(cluster)>>

\* The cache once the sectors `asked` have been asked for: get_helper
\* inserts an entry, marked dirty, for each sector the cache did not hold.
Filled(asked) ==
    [s \in DOMAIN cache \cup {asked[i] : i \in DOMAIN asked} |->
        IF s \in DOMAIN cache THEN cache[s] ELSE [data |-> disk[s], dirty |-> TRUE]]

\* What a call that asks for the sectors `asked` does to the CachedDevice.
\* Where one handle is followed on its own (dev_sector_size = 0) the cache
\* is left out and every get is served by the device.
CacheGets(asked) ==
    /\ cache' = IF dev_sector_size = 0 THEN cache ELSE Filled(asked)
    /\ UNCHANGED <<sector_ret, written, marked>>

(***************************************************************************)
(* file.rs: impl io::Read for File                                         *)
(***************************************************************************)
\* A read that trusts the cluster and never clamps to file_size.
ClampToFileSize_none(n) == n

\* `if self.absolute_offset + n > self.file_size { n = file_size - absolute_offset }`
ClampToFileSize(n) ==
    IF absolute_offset + n > file_size THEN file_size - absolute_offset ELSE n

\* A boundary test that is off by one byte: it also fires for the last
\* byte before the boundary.
CrossedBoundary_early(before, after) ==
    (after + 1) \div cluster_size > before \div cluster_size

\* `absolute_offset / cluster_size > (absolute_offset - n) / cluster_size`
CrossedBoundary(before, after) ==
    after \div cluster_size > before \div cluster_size

\* What the observer keeps of a call and of its result: in full, or, while
\* the byte stream is tracked, without the pre-state and bytes the stream holds.
CallSeen(c) ==
    IF origin = "untracked" THEN c
    ELSE [c EXCEPT !.off0 = 0, !.cl0 = 0]
RetSeen(r) ==
    IF origin = "untracked" THEN r ELSE [r EXCEPT !.bytes = <<>>]

ReadCallRecord(len) ==
    [op |-> "read", mode |-> "", v |-> Small(0), len |-> len,
     off0 |-> absolute_offset, cl0 |-> curr_cluster]

\* File::read entered with a buffer of `len` bytes: the end-of-file early
\* return, else the loop is entered.
ReadCall(len) ==
    /\ pc = "idle"
    /\ call' = CallSeen(ReadCallRecord(len))
    /\ IF absolute_offset = file_size
         THEN /\ ret' = Ok(<<>>)
              /\ UNCHANGED <<pc, curr_buf, total, got, sharedVars>>
         ELSE /\ pc' = "read"
              /\ Acquire
              /\ curr_buf' = len
              /\ total' = 0
              /\ got' = <<>>
              /\ ret' = Pending
    /\ UNCHANGED <<fatVars, vfatVars, fileVars, histVars, dirVars, openVars,
                   mountVars, cacheVars, allocVars, buildVars, handleVars, walkVars, clusterVars>>

\* File::read returns r to the caller; a successful read hands over
\* buf[0..total). The locals of the call are gone.
ReadReturn(r) ==
    /\ pc' = IF r.kind = "Panic" THEN "panicked" ELSE "idle"
    /\ curr_buf' = 0
    /\ total' = 0
    /\ got' = <<>>
    /\ ret' = RetSeen(r)
    /\ stream' = IF r.kind = "Ok" /\ origin \in {"open", "Start"}
                   THEN stream \o r.bytes ELSE stream
    /\ UNCHANGED <<streamStart, origin>>
    /\ Release

\* One evaluation of `while !curr_buf.is_empty() { ... }` in File::read.
ReadLoop ==
    /\ pc = "read"
    /\ UNCHANGED <<fatVars, vfatVars, file_size, start_cluster, call, dirVars, openVars,
                   mountVars, allocVars, buildVars, handleVars, walkVars, clusterVars>>
    /\ CacheGets(IF curr_buf = 0 THEN <<>>
                 ELSE read_cluster_gets(curr_cluster, absolute_offset % cluster_size,
                                        curr_buf))
    /\ IF curr_buf = 0
         THEN /\ ReadReturn(Ok(got))
              /\ UNCHANGED <<absolute_offset, curr_cluster>>
         ELSE
           LET offset_in_cluster == absolute_offset % cluster_size
               r    == read_cluster(curr_cluster, offset_in_cluster, curr_buf)
               n    == ClampToFileSize(r.n)
               off1 == absolute_offset + n
               buf1 == curr_buf - n
               got1 == got \o SubSeq(r.bytes, 1, n)
               st   == status(fat_entry(curr_cluster))
           IN
           IF r.kind # "Ok"
             THEN /\ ReadReturn(r)
                  /\ UNCHANGED <<absolute_offset, curr_cluster>>
             ELSE
               /\ absolute_offset' = off1
               /\ CASE st.tag = "Eoc" ->
                         /\ IF buf1 > 0 /\ off1 < file_size
                              THEN ReadReturn(Err("UnexpectedEof"))
                              ELSE ReadReturn(Ok(got1))
                         /\ UNCHANGED curr_cluster
                    [] st.tag = "Data" ->
                         /\ curr_cluster' = IF CrossedBoundary(absolute_offset, off1)
                                              THEN st.val ELSE curr_cluster
                         /\ total' = total + n
                         /\ curr_buf' = buf1
                         /\ got' = got1
                         /\ UNCHANGED <<pc, ret, histVars, sharedVars>>
                    [] OTHER ->
                         /\ ReadReturn(Err("InvalidData"))
                         /\ UNCHANGED curr_cluster

(***************************************************************************)
(* file.rs: impl io::Seek for File                                         *)
(***************************************************************************)
Target(off)  == [kind |-> "Ok", off |-> off, err |-> ""]
NoTarget(e)  == [kind |-> "Err", off |-> 0, err |-> e]
Fault(why)   == [kind |-> "Panic", off |-> 0, err |-> why]

\* `match pos { ... }`: the candidate offset, or the InvalidInput early return.
\* `-end` and `absolute_offset as i64 + curr` are i64 operations: on overflow a
\* build with overflow checks panics and one without wraps modulo 2^64.
SeekTarget(pos, checked) ==
    CASE pos.mode = "Start" ->
           IF WideGt(pos.v, file_size) THEN NoTarget("InvalidInput")
           ELSE Target(pos.v.d)
      [] pos.mode = "End" ->
           LET neg == I64Neg(pos.v) IN
           IF WidePos(pos.v) THEN NoTarget("InvalidInput")
           ELSE IF neg.ovf /\ checked THEN Fault("attempt to negate with overflow")
           ELSE IF I64AsU64Gt(neg.val, file_size) THEN NoTarget("InvalidInput")
           ELSE Target(file_size + pos.v.d)
      [] pos.mode = "Current" ->
           LET sum == I64Add(absolute_offset, pos.v) IN
           IF sum.ovf /\ checked THEN Fault("attempt to add with overflow")
           ELSE IF WideNeg(sum.val) \/ I64AsU64Gt(sum.val, file_size)
             THEN NoTarget("InvalidInput")
           ELSE Target(sum.val.d)

\* A walk that stops one cluster early when the target is on a boundary.
WalkContinues_strict(end_of_cluster, target) == end_of_cluster < target

\* `while curr_offset + cluster_size <= absolute_offset`
WalkContinues(end_of_cluster, target) == end_of_cluster <= target

Found(c)     == [kind |-> "Ok", cluster |-> c, err |-> ""]
WalkErr(e)   == [kind |-> "Err", cluster |-> 0, err |-> e]

\* The chain walk of seek, from (cluster, curr_offset) towards `target`.
RECURSIVE SeekWalk(_, _, _)
SeekWalk(cluster, curr_offset, target) ==
    LET end == curr_offset + cluster_size IN
    IF ~WalkContinues(end, target) THEN Found(cluster)
    ELSE LET st == status(fat_entry(cluster)) IN
         CASE st.tag = "Eoc" ->
                IF end = target /\ target = file_size
                  THEN Found(cluster)
                  ELSE WalkErr("UnexpectedEof")
           [] st.tag = "Data" -> SeekWalk(st.val, end, target)
           [] OTHER -> WalkErr("InvalidData")

\* The sectors the walk asks the cache for: one fat_entry a turn.
RECURSIVE SeekWalkGets(_, _, _)
SeekWalkGets(cluster, curr_offset, target) ==
    LET end == curr_offset + cluster_size
        st  == status(fat_entry(cluster))
    IN  IF ~WalkContinues(end, target) THEN <<>>
        ELSE IF st.tag = "Data"
          THEN <<fat_entry_sector(cluster)>> \o SeekWalkGets(st.val, end, target)
        ELSE <<fat_entry_sector(cluster)>>

SeekCallRecord(pos) ==
    [op |-> "seek", mode |-> pos.mode, v |-> pos.v, len |-> 0,
     off0 |-> absolute_offset, cl0 |-> curr_cluster]

SeekOk(off) == [kind |-> "Ok", n |-> off, err |-> "", bytes |-> <<>>]

\* The candidate in a build with and in one without overflow checks.
SeekTargets(pos) == {SeekTarget(pos, checked) : checked \in BOOLEAN}

\* File::seek(pos)
Seek(pos) ==
    /\ pc = "idle"
    /\ call' = CallSeen(SeekCallRecord(pos))
    /\ UNCHANGED <<fatVars, vfatVars, file_size, start_cluster, curr_buf, total, got,
                   dirVars, openVars,
                   mountVars, allocVars, buildVars, handleVars, walkVars, clusterVars>>
    /\ \E t \in SeekTargets(pos) :
       LET w == SeekWalk(start_cluster, 0, t.off)
       IN  /\ CacheGets(IF t.kind = "Ok" THEN SeekWalkGets(start_cluster, 0, t.off)
                        ELSE <<>>)
           /\ IF t.kind = "Panic"
                THEN /\ pc' = "panicked"
                     /\ ret' = Panic(t.err)
                     /\ UNCHANGED <<absolute_offset, curr_cluster, histVars, sharedVars>>
              ELSE IF t.kind = "Err" \/ w.kind = "Err"
                THEN /\ ret' = Err(IF t.kind = "Err" THEN t.err ELSE w.err)
                     /\ IF t.kind = "Err" THEN UNCHANGED sharedVars ELSE AcquireRelease
                     /\ UNCHANGED <<pc, absolute_offset, curr_cluster, histVars>>
              ELSE /\ absolute_offset' = t.off
                   /\ AcquireRelease
                   /\ curr_cluster' = w.cluster
                   /\ ret' = SeekOk(t.off)
                   /\ stream' = <<>>
                   /\ streamStart' = IF origin # "untracked" /\ pos.mode = "Start"
                                       THEN t.off ELSE 0
                   /\ origin' = IF origin = "untracked" THEN origin
                                ELSE IF pos.mode = "Start" THEN "Start" ELSE "other"
                   /\ UNCHANGED pc

(***************************************************************************)
(* The mounted images the model explores                                   *)
(***************************************************************************)
\* Raw FAT entries (the reserved high nibble is set in some of them).
EocRaw(c)  == U32((5 * c) % 16, 268435448 + (c % 8))
BadRaw     == U32(0, 268435447)
NextRaw(c) == U32((c % 2) * 2, c)

\* FAT images: entries 0 and 1 hold the media descriptor and an EOC mark.
FatLinear ==      \* 2 -> 3 -> ... -> MaxCluster (Eoc)
    [c \in 0..MaxCluster |->
        IF c < 2 THEN EocRaw(c) ELSE IF c < MaxCluster THEN NextRaw(c + 1) ELSE EocRaw(c)]
FatScrambled ==   \* 3 -> 2 (Eoc): chain order differs from disk order; 4 -> 5 (Eoc)
    [c \in 0..MaxCluster |->
        IF c = 3 THEN NextRaw(2) ELSE IF c = 4 THEN NextRaw(5) ELSE EocRaw(c)]
FatBroken ==      \* 2 -> 3 (Bad), 4 -> 5 (Free)
    [c \in 0..MaxCluster |->
        IF c = 2 THEN NextRaw(3) ELSE IF c = 3 THEN BadRaw
        ELSE IF c = 4 THEN NextRaw(5) ELSE IF c = 5 THEN U32(1, 0) ELSE EocRaw(c)]
FatCyclic ==      \* 2 -> 3 -> 2, 4 and 5 reserved
    [c \in 0..MaxCluster |->
        IF c = 2 THEN NextRaw(3) ELSE IF c = 3 THEN NextRaw(2)
        ELSE IF c = 4 THEN U32(0, 1) ELSE IF c = 5 THEN U32(15, 268435440)
        ELSE EocRaw(c)]

\* The chains a File may start on: <<FAT image, start cluster>>.
Chains ==
    {<<FatLinear, 2>>, <<FatLinear, MaxCluster - 1>>, <<FatLinear, MaxCluster>>,
     <<FatScrambled, 3>>, <<FatBroken, 2>>, <<FatBroken, 4>>,
     <<FatCyclic, 2>>, <<FatCyclic, 4>>}

\* Every data byte is distinct: byte o of logical sector s is s * bps + o.
PatternDisk(bps, spc, first) ==
    [s \in first .. first + spc * (MaxCluster - 1) - 1 |->
        [o \in 1..bps |-> (s * bps + o - 1) % 256]]

NoCall == [op |-> "none", mode |-> "", v |-> Small(0), len |-> 0, off0 |-> 0, cl0 |-> 0]

FatIdle  == raw = U32(0, 0) /\ decoded = NotDecoded
MountIdle ==
    /\ bytes_per_sector = 0 /\ sectors_per_cluster = 0 /\ data_start_sector = 0
    /\ fat = <<>> /\ disk = <<>>
FileIdle ==
    /\ file_size = 0 /\ start_cluster = 0 /\ absolute_offset = 0 /\ curr_cluster = 0
DirIdle ==
    /\ dir_start = 0 /\ chain_curr = 0 /\ chain_buf = <<>> /\ chain_total = 0
    /\ entries = <<>> /\ next = 0 /\ yielded = <<>>
OpenIdle ==
    /\ root_dir_cluster = 0 /\ open_path = <<>> /\ parents = <<>> /\ lasts = <<>>
    /\ opened = [kind |-> "none", entry |-> [kind |-> "none"], err |-> ""]
    /\ finds = 0
DeviceIdle ==
    /\ dev_sector_size = 0 /\ device = <<>> /\ dev_reads = <<>> /\ dev_writes = <<>>
    /\ mounted = [kind |-> "none", err |-> [tag |-> "", mbr |-> FALSE, i |-> 0]]
    /\ sectors_per_fat = 0 /\ fat_start_sector = 0
    /\ partition = [start |-> 0, sector_size |-> 0]
    /\ cache = <<>>
    /\ sector_ret = [op |-> "none", sector |-> 0, kind |-> "none", n |-> 0, err |-> "",
                     bytes |-> <<>>]
    /\ written = {} /\ marked = {}
NoVCall == [op |-> "none", cluster |-> 0, offset |-> 0, buf |-> <<>>]
ClusterIdle ==
    /\ vcall = NoVCall
    /\ vret = [kind |-> "none", n |-> 0, err |-> "", buf |-> <<>>]
    /\ gets = <<>> /\ vcurr = 0 /\ vbuf = <<>> /\ vtotal = 0
SharedIdle == held = 0 /\ reentered = FALSE
NoAllocCall == [op |-> "none", kind |-> "none", addr |-> 0, size |-> 0, align |-> 0,
                from |-> ""]
AllocIdle ==
    /\ region = [start |-> 0, end |-> 0] /\ bins = <<>> /\ pool = <<>> /\ allocated = {}
    /\ alloc_ret = NoAllocCall
BuildIdle == overflow_checks = FALSE
HandleIdle == handles = <<>>
WalkIdle == seek_to = 0 /\ walk_cluster = 0 /\ walk_offset = 0
CallIdle == /\ pc = "idle" /\ curr_buf = 0 /\ total = 0 /\ got = <<>>
            /\ call = NoCall /\ ret = Pending
HistInit == stream = <<>> /\ streamStart = 0 /\ origin = "open"
HistOff  == stream = <<>> /\ streamStart = 0 /\ origin = "untracked"

\* A mounted volume with clusters of 2 sectors of 2 bytes, and a File handle
\* as directory iteration hands it out: at offset 0 in its first cluster.
SmallInit ==
    /\ bytes_per_sector = 2
    /\ sectors_per_cluster = 2
    /\ data_start_sector = 4
    /\ disk = PatternDisk(bytes_per_sector, sectors_per_cluster, data_start_sector)
    /\ \E ch \in Chains : fat = ch[1] /\ start_cluster = ch[2]
    /\ file_size \in 0..MaxFileSize
    /\ absolute_offset = 0
    /\ curr_cluster = start_cluster

\* The end-to-end example: a file of 10 bytes whose first cluster is 3, the
\* FAT mapping cluster 3 to Eoc, in a cluster of 12 bytes.
ExampleInit ==
    /\ bytes_per_sector = 4
    /\ sectors_per_cluster = 3
    /\ data_start_sector = 4
    /\ disk = PatternDisk(bytes_per_sector, sectors_per_cluster, data_start_sector)
    /\ fat = [c \in 0..MaxCluster |-> EocRaw(c)]
    /\ start_cluster = 3
    /\ file_size = 10
    /\ absolute_offset = 0
    /\ curr_cluster = start_cluster

\* Offsets around the start and the end of the file, and the extremes.
SeekArgs ==
    {[mode |-> "Start", v |-> x] :
        x \in {Small(k) : k \in 0..file_size + 1} \cup {U64Max}}
    \cup {[mode |-> "End", v |-> x] :
        x \in {Small(k) : k \in (0 - file_size - 1)..1} \cup {I64Min, I64Max}}
    \cup {[mode |-> "Current", v |-> x] :
        x \in {Small(k) : k \in (0 - file_size - 1)..(file_size + 1)}
               \cup {I64Min, I64Max}}

\* Buffers up to two bytes larger than the file.
ReadLens == 0..Min(MaxBuf, file_size + 2)

InitFile   == FatIdle /\ (SmallInit \/ ExampleInit) /\ CallIdle /\ ClusterIdle /\ SharedIdle /\ AllocIdle /\ BuildIdle /\ HandleIdle /\ WalkIdle /\ HistOff /\ DirIdle /\ OpenIdle /\ DeviceIdle
InitStream == FatIdle /\ (SmallInit \/ ExampleInit) /\ CallIdle /\ ClusterIdle /\ SharedIdle /\ AllocIdle /\ BuildIdle /\ HandleIdle /\ WalkIdle /\ HistInit /\ DirIdle /\ OpenIdle /\ DeviceIdle

NextFile ==
    \/ \E len \in ReadLens : ReadCall(len)
    \/ ReadLoop
    \/ \E pos \in SeekArgs : Seek(pos)

\* Every call on one File handle, each call recorded in full.
SpecFile   == InitFile /\ [][NextFile]_vars
\* The same calls, the byte stream handed to the caller recorded.
SpecStream == InitStream /\ [][NextFile]_vars
\* The calls of SpecFile, with the loop of File::read running on while the
\* call has not returned.
SpecFileLive == SpecFile /\ WF_vars(ReadLoop)

(***************************************************************************)
(* file.rs: File::seek on files of up to 4 GiB, its u32 offsets in full    *)
(***************************************************************************)
\* A u32 offset in two 16-bit halves: hi * 2^16 + lo.
Off32(hi, lo) == [hi |-> hi, lo |-> lo]
ToOff32(n)    == Off32(n \div 65536, n % 65536)

\* a + b on u32: the sum modulo 2^32, and whether it passed u32::MAX
Add32(a, b) ==
    LET lo == a.lo + b.lo
        hi == a.hi + b.hi + (lo \div 65536)
    IN  [val |-> Off32(hi % 65536, lo % 65536), ovf |-> hi >= 65536]

Le32(a, b) == a.hi < b.hi \/ (a.hi = b.hi /\ a.lo <= b.lo)

Lt32(a, b) == a.hi < b.hi \/ (a.hi = b.hi /\ a.lo < b.lo)

\* seek returns r (or panics); its locals are gone.
SeekReturn32(r) ==
    /\ pc' = IF r.kind = "Panic" THEN "panicked" ELSE "idle"
    /\ ret' = r
    /\ seek_to' = 0 /\ walk_cluster' = 0 /\ walk_offset' = 0

\* File::seek(SeekFrom::Start(start)) for a start below 2^32, up to its loop
SeekStart32(start) ==
    /\ pc = "idle"
    /\ call' = [op |-> "seek", mode |-> "Start", v |-> start, len |-> 0,
                off0 |-> absolute_offset, cl0 |-> curr_cluster]
    /\ IF Lt32(file_size, start)
         THEN /\ SeekReturn32(Err("InvalidInput"))
              /\ UNCHANGED sharedVars
         ELSE /\ pc' = "seek"
              /\ ret' = Pending
              /\ seek_to' = start
              /\ walk_cluster' = start_cluster
              /\ walk_offset' = Off32(0, 0)
              /\ AcquireRelease
    /\ UNCHANGED <<fatVars, vfatVars, fileVars, curr_buf, total, got, histVars, dirVars,
                   openVars, mountVars, cacheVars, allocVars, buildVars, handleVars,
                   clusterVars>>

\* `curr_offset + cluster_size`, a u32 addition: past u32::MAX it panics in
\* a build with overflow checks and wraps modulo 2^32 in one without.
WalkEnd(curr_offset, checks) ==
    LET sum == Add32(curr_offset, ToOff32(cluster_size))
    IN  [val |-> sum.val, ovf |-> sum.ovf, fault |-> sum.ovf /\ checks]

\* One evaluation of `while curr_offset + cluster_size <= absolute_offset`
\* and, where it holds, one turn of the loop, lines 140-156; past the loop,
\* lines 158-161.
SeekLoop32 ==
    /\ pc = "seek"
    /\ \E end \in {WalkEnd(walk_offset, overflow_checks)} :
         IF end.fault
           THEN /\ SeekReturn32(Panic("attempt to add with overflow"))
                /\ UNCHANGED <<absolute_offset, curr_cluster, sharedVars>>
         ELSE IF Lt32(seek_to, end.val)
           THEN /\ absolute_offset' = seek_to
                /\ curr_cluster' = walk_cluster
                /\ SeekReturn32(SeekOk(seek_to))
                /\ UNCHANGED sharedVars
         ELSE LET st == status(fat_entry(walk_cluster)) IN
              /\ AcquireRelease
              /\ IF st.tag = "Eoc"
                   THEN IF end.val = seek_to /\ seek_to = file_size
                          THEN /\ absolute_offset' = seek_to
                               /\ curr_cluster' = walk_cluster
                               /\ SeekReturn32(SeekOk(seek_to))
                          ELSE /\ SeekReturn32(Err("UnexpectedEof"))
                               /\ UNCHANGED <<absolute_offset, curr_cluster>>
                 ELSE IF st.tag = "Data"
                   THEN /\ walk_cluster' = st.val
                        /\ walk_offset' = end.val
                        /\ UNCHANGED <<pc, ret, seek_to, absolute_offset, curr_cluster>>
                 ELSE /\ SeekReturn32(Err("InvalidData"))
                      /\ UNCHANGED <<absolute_offset, curr_cluster>>
    /\ UNCHANGED <<fatVars, vfatVars, file_size, start_cluster, curr_buf, total, got,
                   call, histVars, dirVars, openVars, mountVars, cacheVars, allocVars,
                   buildVars, handleVars, clusterVars>>

MaxWalk == 1025       \* no chain is longer than MaxWalk clusters

\* n * cluster_size for n <= MaxWalk, its upper half left as wide as it gets
Ends32(n) ==
    LET lo == (cluster_size % 65536) * n
    IN  Off32((cluster_size \div 65536) * n + (lo \div 65536), lo % 65536)

\* The number of clusters a file of `size` bytes takes: at least one.
Covering(size) ==
    CHOOSE n \in 1..MaxWalk :
        /\ Le32(size, Ends32(n))
        /\ n = 1 \/ Lt32(Ends32(n - 1), size)

\* A FAT holding one chain of n clusters: 2 -> 3 -> ... -> n + 1 (Eoc)
LongFat(n) ==
    [c \in 0..(n + 1) |->
        IF c < 2 THEN EocRaw(c) ELSE IF c < n + 1 THEN NextRaw(c + 1) ELSE EocRaw(c)]

\* 4 GiB - 1, 4 GiB - 64 KiB, and 5 bytes
Sizes32 == {Off32(65535, 65535), Off32(65535, 0), Off32(0, 5)}

\* Volumes with the largest clusters the boot sector's fields can hold (255
\* sectors of 65535 bytes) and with clusters of 4 MiB, a File of one of the
\* sizes on a chain of the clusters its size takes, in either build.
Init32 ==
    /\ \E g \in {<<65535, 255>>, <<32768, 128>>} :
         bytes_per_sector = g[1] /\ sectors_per_cluster = g[2]
    /\ data_start_sector = 0 /\ disk = <<>>
    /\ file_size \in Sizes32
    /\ fat = LongFat(Covering(file_size))
    /\ start_cluster = 2
    /\ absolute_offset = Off32(0, 0)
    /\ curr_cluster = start_cluster
    /\ overflow_checks \in BOOLEAN

InitSeek32 ==
    /\ FatIdle /\ Init32 /\ CallIdle /\ ClusterIdle /\ SharedIdle /\ AllocIdle
    /\ HandleIdle /\ WalkIdle /\ HistOff /\ DirIdle /\ OpenIdle /\ DeviceIdle

\* Offsets at the start, inside and at the end of the 32-bit range
Starts32 ==
    {Off32(0, 0), Off32(0, 5), Off32(40000, 3), Off32(65535, 0), Off32(65535, 65535)}

NextSeek32 ==
    \/ \E start \in Starts32 : SeekStart32(start)
    \/ SeekLoop32

\* Every seek from the start on one File handle of such a volume.
SpecSeek32 == InitSeek32 /\ [][NextSeek32]_vars

(***************************************************************************)
(* metadata.rs: Attributes                                                 *)
(***************************************************************************)
\* bit k of the byte a
Bit(a, k) == (a \div Pow2(k)) % 2 = 1

read_only(a) == Bit(a, 0)
hidden(a)    == Bit(a, 1)
system(a)    == Bit(a, 2)
volume_id(a) == Bit(a, 3)
directory(a) == Bit(a, 4)
lfn(a)       == read_only(a) /\ hidden(a) /\ system(a) /\ volume_id(a)

(***************************************************************************)
(* dir.rs: the 32-byte directory record and its three views                *)
(***************************************************************************)
\* A record is a sequence of 32 bytes; the views of `union VFatDirEntry`
\* read the same bytes at their own (packed, little-endian) offsets.
EntrySize == 32

U16At(r, off)    == r[off + 1] + 256 * r[off + 2]
BytesAt(r, off, n) == SubSeq(r, off + 1, off + n)
UnitsAt(r, off, n) == [i \in 1..n |-> U16At(r, off + 2 * (i - 1))]

\* VFatUnknownDirEntry
id(r)         == r[1]
attributes(r) == r[12]

\* VFatRegularDirEntry
file_name(r)          == BytesAt(r, 0, 8)
file_ext(r)           == BytesAt(r, 8, 3)
first_cluster_high(r) == U16At(r, 20)
first_cluster_low(r)  == U16At(r, 26)

\* VFatLfnDirEntry
sequence_number(r) == r[1]
name_part1(r)      == UnitsAt(r, 1, 5)
name_part2(r)      == UnitsAt(r, 14, 6)
name_part3(r)      == UnitsAt(r, 28, 2)

\* A String is the sequence of its chars (code points).
StrOk(s)  == [kind |-> "Ok",  s |-> s, err |-> ""]
StrErr(e) == [kind |-> "Err", s |-> <<>>, err |-> e]

\* The first position (0-based) of s holding a member of stop, or len(s).
RECURSIVE PositionOr(_, _, _)
PositionOr(s, stop, i) ==
    IF i >= Len(s) THEN Len(s)
    ELSE IF s[i + 1] \in stop THEN i
    ELSE PositionOr(s, stop, i + 1)

\* std::str::from_utf8, byte i (1-based) onwards
RECURSIVE from_utf8(_, _, _)
from_utf8(b, i, acc) ==
    IF i > Len(b) THEN StrOk(acc)
    ELSE LET b0 == b[i]
             In(j, lo, hi) == j <= Len(b) /\ b[j] >= lo /\ b[j] <= hi
             Cont(j) == In(j, 128, 191)
         IN
         IF b0 < 128 THEN from_utf8(b, i + 1, Append(acc, b0))
         ELSE IF b0 >= 194 /\ b0 <= 223 /\ Cont(i + 1)
           THEN from_utf8(b, i + 2, Append(acc, (b0 - 192) * 64 + (b[i + 1] - 128)))
         ELSE IF /\ b0 >= 224 /\ b0 <= 239
                 /\ In(i + 1, IF b0 = 224 THEN 160 ELSE 128, IF b0 = 237 THEN 159 ELSE 191)
                 /\ Cont(i + 2)
           THEN from_utf8(b, i + 3,
                          Append(acc, (b0 - 224) * 4096 + (b[i + 1] - 128) * 64
                                      + (b[i + 2] - 128)))
         ELSE IF /\ b0 >= 240 /\ b0 <= 244
                 /\ In(i + 1, IF b0 = 240 THEN 144 ELSE 128, IF b0 = 244 THEN 143 ELSE 191)
                 /\ Cont(i + 2) /\ Cont(i + 3)
           THEN from_utf8(b, i + 4,
                          Append(acc, (b0 - 240) * 262144 + (b[i + 1] - 128) * 4096
                                      + (b[i + 2] - 128) * 64 + (b[i + 3] - 128)))
         ELSE StrErr("Utf8Error")

\* std::char::decode_utf16 collected into a Result<String, _>
RECURSIVE decode_utf16(_, _, _)
decode_utf16(u, i, acc) ==
    IF i > Len(u) THEN StrOk(acc)
    ELSE LET u0 == u[i] IN
         IF u0 < 55296 \/ u0 > 57343 THEN decode_utf16(u, i + 1, Append(acc, u0))
         ELSE IF u0 <= 56319 /\ i < Len(u) /\ u[i + 1] >= 56320 /\ u[i + 1] <= 57343
           THEN decode_utf16(u, i + 2,
                             Append(acc, 65536 + (u0 - 55296) * 1024 + (u[i + 1] - 56320)))
         ELSE StrErr("DecodeUtf16Error")

\* .map_err(|_| io::Error::new(e, ..))
map_err(r, e) == IF r.kind = "Ok" THEN r ELSE StrErr(e)

\* VFatRegularDirEntry::is_terminate_char / str_len / parse_str
RegularTerminators == {0, 32}
VFatRegularDirEntry_str_len(s) == PositionOr(s, RegularTerminators, 0)
VFatRegularDirEntry_parse_str(s) ==
    map_err(from_utf8(SubSeq(s, 1, VFatRegularDirEntry_str_len(s)), 1, <<>>), "InvalidData")

\* VFatRegularDirEntry::name, given what parse_str makes of file_name and
\* of file_ext (the extension is looked at only when the name is there)
RegularJoin(nm, ext) ==
    IF nm.kind = "Err" THEN nm
    ELSE IF Len(nm.s) = 0 THEN StrErr("InvalidData")
    ELSE IF ext.kind = "Err" THEN ext
    ELSE IF Len(ext.s) = 0 THEN StrOk(nm.s)
    ELSE StrOk(nm.s \o <<46>> \o ext.s)

\* VFatRegularDirEntry::name
VFatRegularDirEntry_name(r) ==
    RegularJoin(VFatRegularDirEntry_parse_str(file_name(r)),
                VFatRegularDirEntry_parse_str(file_ext(r)))

\* VFatRegularDirEntry::metadata
metadata(r) ==
    [attributes |-> attributes(r),
     created  |-> [date |-> U16At(r, 16), time |-> U16At(r, 14),
                   addtional_in_10ms |-> r[14]],
     accessed |-> [date |-> U16At(r, 18), time |-> 0, addtional_in_10ms |-> 0],
     modified |-> [date |-> U16At(r, 24), time |-> U16At(r, 22),
                   addtional_in_10ms |-> 0]]

\* VFatRegularDirEntry::first_cluster
first_cluster(r) == first_cluster_high(r) * 65536 + first_cluster_low(r)

\* VFatLfnDirEntry::last_logical / position
last_logical(r) == Bit(sequence_number(r), 6)
position(r)     == sequence_number(r) % 32

\* VFatLfnDirEntry::is_terminate_char / str_len / parse_str
LfnTerminators == {0, 65535}
VFatLfnDirEntry_str_len(s) == PositionOr(s, LfnTerminators, 0)
VFatLfnDirEntry_parse_str(s) ==
    map_err(decode_utf16(SubSeq(s, 1, VFatLfnDirEntry_str_len(s)), 1, <<>>), "InvalidData")

\* VFatLfnDirEntry::name, given what parse_str makes of the three parts
LfnJoin(p1, p2, p3) ==
    IF p1.kind = "Err" THEN p1
    ELSE IF p2.kind = "Err" THEN p2
    ELSE IF p3.kind = "Err" THEN p3
    ELSE StrOk(p1.s \o p2.s \o p3.s)

\* VFatLfnDirEntry::name
VFatLfnDirEntry_name(r) ==
    LfnJoin(VFatLfnDirEntry_parse_str(name_part1(r)),
            VFatLfnDirEntry_parse_str(name_part2(r)),
            VFatLfnDirEntry_parse_str(name_part3(r)))

(***************************************************************************)
(* entry.rs and dir.rs: Entry, EntryIter, Dir                              *)
(***************************************************************************)
NoneStr    == [some |-> FALSE, s |-> <<>>]
SomeStr(s) == [some |-> TRUE,  s |-> s]

\* Entry::Dir(Dir { long_name, short_name, metadata, start_cluster, vfat })
DirEntry(long, short, md, cluster) ==
    [kind |-> "Dir", long_name |-> long, short_name |-> short,
     metadata |-> md, start_cluster |-> cluster]
\* Entry::File(File {}): no field of the File is given a value
FileEntry == [kind |-> "File"]
NoEntry   == [kind |-> "none"]

\* impl traits::Entry for Entry: name
Entry_name(e) ==
    IF e.kind = "File" THEN [kind |-> "Panic", s |-> <<>>, err |-> "not yet implemented"]
    ELSE StrOk(IF e.long_name.some THEN e.long_name.s ELSE e.short_name)

LfnOk(s, num)  == [kind |-> "Ok", s |-> s, num |-> num, err |-> ""]
LfnErr(e)      == [kind |-> "Err", s |-> <<>>, num |-> 0, err |-> e]
LfnPanic(why)  == [kind |-> "Panic", s |-> <<>>, num |-> 0, err |-> why]

\* parse_lfn: the closure mapped over entries[start_entry .. start_entry +
\* count] reversed and enumerated, as collect runs it from item i onwards.
RECURSIVE LfnCollect(_, _, _, _)
\* collect, given the name of item i: the first Err ends it
LfnThen(nm, start_entry, count, i, acc) ==
    IF nm.kind = "Err" THEN LfnErr(nm.err)
    ELSE LfnCollect(start_entry, count, i + 1, acc \o nm.s)

LfnCollect(start_entry, count, i, acc) ==
    IF i >= count THEN LfnOk(acc, count)
    ELSE LET e == entries[start_entry + count - i] IN
         IF ~lfn(attributes(e)) THEN LfnPanic("assertion failed: e.attributes.lfn()")
         ELSE IF position(e) # i + 1
           THEN LfnPanic("assertion failed: e.position() == i + 1")
         ELSE LfnThen(VFatLfnDirEntry_name(e), start_entry, count, i, acc)

\* EntryIter::parse_lfn(start_entry), start_entry counted from 0
parse_lfn(start_entry) ==
    LET start == entries[start_entry + 1] IN
    IF ~lfn(attributes(start)) THEN LfnPanic("assertion failed: start.attributes.lfn()")
    ELSE IF ~last_logical(start) THEN LfnPanic("assertion failed: start.last_logical()")
    ELSE IF ~(position(start) >= 1)
      THEN LfnPanic("assertion failed: start.position() >= 1")
    ELSE IF ~(position(start) + 1 <= Len(entries) - start_entry)
      THEN LfnPanic("assertion failed: start.position() + 1 <= len - start_entry")
    ELSE LfnCollect(start_entry, position(start), 0, <<>>)

\* What a directory operation hands back.
DirRet(kind, entry, err) == [kind |-> kind, entry |-> entry, err |-> err]
\* What next() hands back, with the value it leaves in self.next.
IterRet(kind, entry, err, n) == [kind |-> kind, entry |-> entry, err |-> err, next |-> n]

\* impl Iterator for EntryIter: next, with self.next = n on entry
RECURSIVE EntryIter_next(_)
\* next, lines 262-269: the directory entry, short its parsed short name
YieldDir(long_name, regular, short, at) ==
    IF short.kind = "Err" THEN IterRet("Panic", NoEntry, short.err, at + 1)
    ELSE IterRet("Some",
                 DirEntry(long_name, short.s, metadata(regular), first_cluster(regular)),
                 "", at + 1)

\* next, lines 259-272: the regular entry at self.next = at
YieldRegular(long_name, at) ==
    LET regular == entries[at + 1] IN
    IF directory(attributes(regular))
      THEN YieldDir(long_name, regular, VFatRegularDirEntry_name(regular), at)
      ELSE IterRet("Some", FileEntry, "", at + 1)

\* next, lines 254-256: p is what parse_lfn(self.next) returned
AfterLfn(n, p) ==
    IF p.kind # "Ok" THEN IterRet("Panic", NoEntry, p.err, n)
    ELSE YieldRegular(SomeStr(p.s), n + p.num)

\* next, lines 248-251 with the deleted arm missing
MatchId_keep(b) == IF b = 0 THEN "end" ELSE "entry"

\* next, lines 248-251: the arm of the match on entry.unknown.id
MatchId(b) == IF b = 0 THEN "end" ELSE IF b = 229 THEN "deleted" ELSE "entry"

EntryIter_next(n) ==
    IF ~(n < Len(entries)) THEN IterRet("None", NoEntry, "", n)
    ELSE LET entry == entries[n + 1] IN
         IF MatchId(id(entry)) = "end" THEN IterRet("None", NoEntry, "", n)
         ELSE IF MatchId(id(entry)) = "deleted" THEN EntryIter_next(n + 1)
         ELSE IF lfn(attributes(entry)) THEN AfterLfn(n, parse_lfn(n))
         ELSE YieldRegular(NoneStr, n)

\* u8::to_ascii_lowercase and str::eq_ignore_ascii_case
to_ascii_lowercase(c) == IF c >= 65 /\ c <= 90 THEN c + 32 ELSE c
eq_ignore_ascii_case(a, b) ==
    /\ Len(a) = Len(b)
    /\ \A i \in 1..Len(a) : to_ascii_lowercase(a[i]) = to_ascii_lowercase(b[i])

\* OsStr::to_str on the bytes of the name
to_str(name) == from_utf8(name, 1, <<>>)

\* VecExt::cast: the buffer as a vector of 32-byte records
cast(buf) ==
    [k \in 1..(Len(buf) \div EntrySize) |->
        SubSeq(buf, EntrySize * (k - 1) + 1, EntrySize * k)]

\* Longest chain read_chain is followed along (a cyclic chain has no end).
MaxChain == 3

DirCall(op, name, n, y) == [op |-> op, name |-> name, next0 |-> n, yielded0 |-> y]

\* A call returns ret to its caller (or panics).
DirReturn(r) ==
    /\ pc' = IF r.kind = "Panic" THEN "panicked" ELSE "idle"
    /\ ret' = r

\* read_chain(self.start_cluster, &mut buf) is entered with an empty buf;
\* the iterator of an earlier call is no longer in use.
ChainEnter ==
    /\ pc' = "chain"
    /\ chain_curr' = dir_start
    /\ chain_buf' = <<>>
    /\ chain_total' = 0
    /\ ret' = DirRet("Pending", NoEntry, "")
    /\ entries' = <<>> /\ next' = 0 /\ yielded' = <<>>
    /\ UNCHANGED dir_start
    /\ Acquire

\* Dir::entries, up to its call of read_chain
Entries ==
    /\ pc = "idle"
    /\ dir_start # 0
    /\ call' = DirCall("entries", <<>>, 0, 0)
    /\ ChainEnter
    /\ UNCHANGED <<fatVars, vfatVars, fileVars, histVars, openVars, mountVars,
                   cacheVars, allocVars, buildVars, handleVars, walkVars, clusterVars, curr_buf, total, got>>

\* Dir::find(name), up to the call of read_chain made by self.entries()
Find(name) ==
    /\ pc = "idle"
    /\ dir_start # 0
    /\ call' = DirCall("find", name, 0, 0)
    /\ IF to_str(name).kind = "Err"
         THEN /\ DirReturn(DirRet("Err", NoEntry, "InvalidInput"))
              /\ chain_curr' = 0 /\ chain_buf' = <<>> /\ chain_total' = 0
              /\ entries' = <<>> /\ next' = 0 /\ yielded' = <<>>
              /\ UNCHANGED <<dir_start, sharedVars>>
         ELSE ChainEnter
    /\ UNCHANGED <<fatVars, vfatVars, fileVars, histVars, openVars, mountVars,
                   cacheVars, allocVars, buildVars, handleVars, walkVars, clusterVars, curr_buf, total, got>>

\* One turn of read_chain's loop and, when the chain ends, the rest of
\* Dir::entries: the size assertion and the EntryIter, which Dir::entries
\* returns and Dir::find goes on to scan.
ChainLoop ==
    /\ pc = "chain"
    /\ chain_total < MaxChain * cluster_size
    /\ LET resized == chain_buf \o [i \in 1..cluster_size |-> 0]
           rc      == read_cluster(chain_curr, 0, Len(resized) - chain_total)
           buf     == SubSeq(resized, 1, chain_total) \o rc.bytes
                        \o SubSeq(resized, chain_total + rc.n + 1, Len(resized))
           st      == status(fat_entry(chain_curr))
           size    == chain_total + rc.n
       IN
       /\ chain_buf' = buf
       /\ CacheGets(read_cluster_gets(chain_curr, 0, Len(resized) - chain_total))
       /\ IF rc.kind = "Ok" /\ rc.n = cluster_size /\ st.tag = "Data"
            THEN UNCHANGED sharedVars
            ELSE Release
       /\ IF rc.kind = "Err"
            THEN /\ DirReturn(DirRet("Err", NoEntry, rc.err))
                 /\ UNCHANGED <<chain_curr, chain_total, entries, next, yielded>>
          ELSE IF rc.kind = "Panic" \/ rc.n # cluster_size
            THEN /\ DirReturn(DirRet("Panic", NoEntry, "assertion failed in read_chain"))
                 /\ UNCHANGED <<chain_curr, chain_total, entries, next, yielded>>
          ELSE
            /\ chain_total' = size
            /\ IF st.tag = "Data"
                 THEN /\ chain_curr' = st.val
                      /\ UNCHANGED <<pc, ret, entries, next, yielded>>
               ELSE IF st.tag # "Eoc"
                 THEN /\ DirReturn(DirRet("Err", NoEntry, "InvalidData"))
                      /\ UNCHANGED <<chain_curr, entries, next, yielded>>
               ELSE IF size % EntrySize # 0
                 THEN /\ DirReturn(DirRet("Panic", NoEntry,
                                          "assertion failed: size % size_of == 0"))
                      /\ UNCHANGED <<chain_curr, entries, next, yielded>>
               ELSE
                 /\ entries' = cast(buf)
                 /\ next' = 0
                 /\ yielded' = <<>>
                 /\ IF call.op = "find"
                      THEN pc' = "find" /\ UNCHANGED ret
                      ELSE DirReturn(DirRet("Ok", NoEntry, ""))
                 /\ UNCHANGED chain_curr
    /\ UNCHANGED <<fatVars, vfatVars, fileVars, histVars, openVars, mountVars,
                   allocVars, buildVars, handleVars, walkVars, clusterVars, curr_buf, total, got,
                   call, dir_start>>

\* EntryIter::next on the iterator Dir::entries returned
IterNext ==
    /\ pc = "idle"
    /\ call.op \in {"entries", "next"}
    /\ ret.kind \in {"Ok", "Some", "None"}
    /\ \E r \in {EntryIter_next(next)} :
       /\ call' = DirCall("next", <<>>, next, Len(yielded))
       /\ DirReturn(DirRet(r.kind, r.entry, r.err))
       /\ next' = r.next
       /\ yielded' = IF r.kind = "Some" THEN Append(yielded, r.entry) ELSE yielded
    /\ UNCHANGED <<fatVars, vfatVars, fileVars, histVars, openVars, mountVars,
                   cacheVars, allocVars, buildVars, handleVars, walkVars, clusterVars, curr_buf, total, got,
                   dir_start, chain_curr, chain_buf, chain_total, entries, sharedVars>>

\* Dir::find: one turn of Iterator::find over the entries, the closure
\* |e| e.name().eq_ignore_ascii_case(name) applied to what next() yields.
FindLoop ==
    /\ pc = "find"
    /\ \E r \in {EntryIter_next(next)} :
       /\ next' = r.next
       /\ yielded' = IF r.kind = "Some" THEN Append(yielded, r.entry) ELSE yielded
       /\ IF r.kind = "Panic" THEN DirReturn(DirRet("Panic", NoEntry, r.err))
          ELSE IF r.kind = "None" THEN DirReturn(DirRet("Err", NoEntry, "NotFound"))
          ELSE IF Entry_name(r.entry).kind = "Panic"
            THEN DirReturn(DirRet("Panic", NoEntry, Entry_name(r.entry).err))
          ELSE IF eq_ignore_ascii_case(Entry_name(r.entry).s, to_str(call.name).s)
            THEN DirReturn(DirRet("Ok", r.entry, ""))
          ELSE UNCHANGED <<pc, ret>>
    /\ UNCHANGED <<fatVars, vfatVars, fileVars, histVars, openVars, mountVars,
                   cacheVars, allocVars, buildVars, handleVars, walkVars, clusterVars, curr_buf, total, got,
                   call, dir_start, chain_curr, chain_buf, chain_total, entries,
                   sharedVars>>

(***************************************************************************)
(* The directories the model explores                                      *)
(***************************************************************************)
MaxRecords == 4       \* a directory holds 0..MaxRecords records before its end

PadTo(s, n, fill) == s \o [i \in 1..(n - Len(s)) |-> fill]
LE16(v)    == <<v % 256, v \div 256>>
LEBytes(u) ==
    [i \in 1..(2 * Len(u)) |->
        IF i % 2 = 1 THEN u[(i + 1) \div 2] % 256 ELSE u[i \div 2] \div 256]

\* A regular record: name and extension space-padded, then the attributes,
\* the timestamps, the first cluster and a size of 5 bytes.
RegularRecord(nm, ext, attr, cluster) ==
    PadTo(nm, 8, 32) \o PadTo(ext, 3, 32) \o <<attr, 0, 100>>
      \o LE16(43845) \o LE16(22881) \o LE16(22882)
      \o LE16(cluster \div 65536) \o LE16(43846) \o LE16(22883)
      \o LE16(cluster % 65536) \o <<5, 0, 0, 0>>

\* A long-name record: up to 13 UCS-2 units, 0x0000-terminated and
\* 0xFFFF-padded when shorter.
LfnRecord(seq, text) ==
    LET u == PadTo(IF Len(text) < 13 THEN Append(text, 0) ELSE text, 13, 65535) IN
    <<seq>> \o LEBytes(SubSeq(u, 1, 5)) \o <<15, 0, 0>>
      \o LEBytes(SubSeq(u, 6, 11)) \o <<0, 0>> \o LEBytes(SubSeq(u, 12, 13))

\* "a_very_long_f" and "ilename.txt": the two fragments of
\* "a_very_long_filename.txt"; "Long.d" fits one fragment.
TextFragment1 == <<97, 95, 118, 101, 114, 121, 95, 108, 111, 110, 103, 95, 102>>
TextFragment2 == <<105, 108, 101, 110, 97, 109, 101, 46, 116, 120, 116>>
TextLongD     == <<76, 111, 110, 103, 46, 100>>

RecEnd     == [i \in 1..EntrySize |-> 0]
RecSubDir  == RegularRecord(<<83, 85, 66>>, <<>>, 16, 3)              \* SUB, a directory
RecFile    == RegularRecord(<<65>>, <<84, 88, 84>>, 32, 4)            \* A.TXT, a file
RecDeleted == [RecFile EXCEPT ![1] = 229]
RecLfn2    == LfnRecord(66, TextFragment2)     \* 0x42: position 2, last logical
RecLfn1    == LfnRecord(1, TextFragment1)      \* 0x01: position 1
RecLfnOnly == LfnRecord(65, TextLongD)         \* 0x41: position 1, last logical

RecordPool == {RecSubDir, RecFile, RecDeleted, RecLfn2, RecLfn1, RecLfnOnly, RecEnd}

DirContents == UNION {[1..n -> RecordPool] : n \in 0..MaxRecords}

\* The names looked up: "SUB", "sub", "a.txt", "LONG.D",
\* "A_Very_Long_Filename.TXT", "none", and a byte string that is not UTF-8.
Names ==
    {<<83, 85, 66>>, <<115, 117, 98>>, <<97, 46, 116, 120, 116>>,
     <<76, 79, 78, 71, 46, 68>>,
     <<65, 95, 86>> \o SubSeq(TextFragment1, 4, 7) \o <<76>> \o SubSeq(TextFragment1, 9, 11)
        \o <<95, 70>> \o SubSeq(TextFragment2, 1, 8) \o <<84, 88, 84>>,
     <<110, 111, 110, 101>>, <<83, 255>>}

\* The FAT of a directory of n clusters starting at cluster 2.
DirFat(n) ==
    [c \in 0..MaxCluster |->
        IF c >= 2 /\ c < n + 1 THEN NextRaw(c + 1) ELSE EocRaw(c)]

\* A volume with sectors of 32 bytes and clusters of 2 sectors that holds
\* one directory: its records, then end-of-directory records.
DirInit ==
    /\ bytes_per_sector = EntrySize
    /\ sectors_per_cluster = 2
    /\ data_start_sector = 4
    /\ dir_start = 2
    /\ \E recs \in DirContents :
         /\ disk = [sec \in data_start_sector ..
                            data_start_sector + sectors_per_cluster * (MaxCluster - 1) - 1 |->
                       IF sec - data_start_sector < Len(recs)
                         THEN recs[sec - data_start_sector + 1] ELSE RecEnd]
         /\ fat \in {DirFat((Len(recs) + 2) \div 2)}
                      \cup (IF recs = <<RecSubDir>> THEN {FatBroken, FatCyclic} ELSE {})
    /\ chain_curr = 0 /\ chain_buf = <<>> /\ chain_total = 0
    /\ entries = <<>> /\ next = 0 /\ yielded = <<>>

InitDir == FatIdle /\ DirInit /\ FileIdle /\ CallIdle /\ ClusterIdle /\ SharedIdle /\ AllocIdle /\ BuildIdle /\ HandleIdle /\ WalkIdle /\ HistOff /\ OpenIdle /\ DeviceIdle

NextDir ==
    \/ Entries
    \/ \E name \in Names : Find(name)
    \/ ChainLoop
    \/ IterNext
    \/ FindLoop

\* Every call on one Dir handle and on the iterator it returns.
SpecDir == InitDir /\ [][NextDir]_vars

(***************************************************************************)
(* Directories of one entry, for the decoding of names                     *)
(***************************************************************************)
\* The 8-byte name fields: 'A' or a space, two bytes out of 'B', 0x00 and
\* space, then "DEFGH".
NameFields ==
    {<<a, b, c, 68, 69, 70, 71, 72>> : a \in {65, 32}, b \in {66, 0, 32}, c \in {66, 0, 32}}
\* The 3-byte extension fields
ExtFields == {<<x, y, z>> : x \in {88, 0, 32}, y \in {89, 0, 32}, z \in {90, 32}}

\* The regular entries: a directory or a file, its first cluster below or
\* above 2^16.
ShortRecords ==
    {RegularRecord(nm, ext, attr, cluster) :
        nm \in NameFields, ext \in ExtFields, attr \in {16, 32}, cluster \in {3, 65539}}

\* The 13 units of a fragment: letters up to unit t, then the unit term,
\* then units that all equal fill, or letters again when fill is 1.
FragmentUnits(t, term, fill) ==
    [i \in 1..13 |-> IF i <= t THEN 96 + i
                     ELSE IF i = t + 1 THEN term
                     ELSE IF fill = 1 THEN 96 + i ELSE fill]
Fragments ==
    {FragmentUnits(t, term, fill) : t \in 0..13, term \in {0, 65535}, fill \in {0, 65535, 1}}

\* One regular entry, or one fragment (0x41: position 1, last logical)
\* followed by a regular entry.
NameContents ==
    {<<r>> : r \in ShortRecords}
      \cup {<<LfnRecord(65, u), r>> : u \in Fragments, r \in {RecSubDir, RecFile}}

\* The volume of DirInit, holding one of these directories.
NameInit ==
    /\ bytes_per_sector = EntrySize
    /\ sectors_per_cluster = 2
    /\ data_start_sector = 4
    /\ dir_start = 2
    /\ \E recs \in NameContents :
         /\ disk = [sec \in data_start_sector ..
                            data_start_sector + sectors_per_cluster * (MaxCluster - 1) - 1 |->
                       IF sec - data_start_sector < Len(recs)
                         THEN recs[sec - data_start_sector + 1] ELSE RecEnd]
         /\ fat = DirFat((Len(recs) + 2) \div 2)
    /\ chain_curr = 0 /\ chain_buf = <<>> /\ chain_total = 0
    /\ entries = <<>> /\ next = 0 /\ yielded = <<>>

InitNames ==
    /\ FatIdle /\ NameInit /\ FileIdle /\ CallIdle /\ ClusterIdle /\ SharedIdle
    /\ AllocIdle /\ BuildIdle /\ HandleIdle /\ WalkIdle /\ HistOff /\ OpenIdle /\ DeviceIdle

NextNames ==
    \/ Entries
    \/ ChainLoop
    \/ IterNext

\* Dir::entries and every next() on a directory of one entry.
SpecNames == InitNames /\ [][NextNames]_vars

(***************************************************************************)
(* vfat.rs: FileSystem::open                                               *)
(***************************************************************************)
\* std::path::Component, as Path::components makes them on a Unix target
RootDir      == [kind |-> "RootDir", name |-> <<>>]
CurDir       == [kind |-> "CurDir", name |-> <<>>]
ParentDir    == [kind |-> "ParentDir", name |-> <<>>]
Normal(name) == [kind |-> "Normal", name |-> name]

\* The byte strings between the separators '/' (47) of the path b.
RECURSIVE SplitAt(_, _, _, _)
SplitAt(b, i, cur, acc) ==
    IF i > Len(b) THEN Append(acc, cur)
    ELSE IF b[i] = 47 THEN SplitAt(b, i + 1, <<>>, Append(acc, cur))
    ELSE SplitAt(b, i + 1, Append(cur, b[i]), acc)

\* Path::components on segments i.. : empty segments and "." are dropped,
\* except a "." that starts a relative path; ".." is ParentDir
RECURSIVE SegmentComponents(_, _, _)
SegmentComponents(segs, i, has_root) ==
    IF i > Len(segs) THEN <<>>
    ELSE (IF segs[i] = <<>> THEN <<>>
          ELSE IF segs[i] = <<46>> THEN (IF i = 1 /\ ~has_root THEN <<CurDir>> ELSE <<>>)
          ELSE IF segs[i] = <<46, 46>> THEN <<ParentDir>>
          ELSE <<Normal(segs[i])>>)
         \o SegmentComponents(segs, i + 1, has_root)

\* path.as_ref().components().collect::<Vec<_>>()
components(b) ==
    IF b = <<>> THEN <<>>
    ELSE (IF b[1] = 47 THEN <<RootDir>> ELSE <<>>)
         \o SegmentComponents(SplitAt(b, 1, <<>>, <<>>), 1, b[1] = 47)

\* Dir::root(root_dir_cluster, vfat): a Dir on the recorded root cluster,
\* without a name and with the metadata of an all-zero record
Dir_root(cluster) == DirEntry(NoneStr, <<>>, metadata(RecEnd), cluster)

\* open, lines 182-192, with the test for the root component missing
NotAbsolute_empty(comps) == comps = <<>>

\* open, lines 182-192: the paths rejected before the walk
NotAbsolute(comps) == comps = <<>> \/ comps[1] # RootDir

\* What the walk over the components comes to: a result of open, or the
\* call dir.find(name) with the components left after it.
WalkRet(kind, entry, err, name, ps, ls) ==
    [kind |-> kind, entry |-> entry, err |-> err, name |-> name,
     parents |-> ps, lasts |-> ls]

\* parents.pop(), line 211
Pop(ps) == SubSeq(ps, 1, Len(ps) - 1)

\* open, lines 196-228: the loop over lasts from the stack ps on, up to the
\* next call of find or the return
RECURSIVE Walk(_, _)
Walk(ps, ls) ==
    IF ls = <<>> THEN WalkRet("Ok", ps[Len(ps)], "", <<>>, Pop(ps), ls)
    ELSE IF Head(ls).kind = "Prefix"
      THEN WalkRet("Err", NoEntry, "InvalidInput", <<>>, ps, ls)
    ELSE IF Head(ls).kind = "RootDir"
      THEN WalkRet("Panic", NoEntry, "[bug] root dir should not be in the middle of path",
                   <<>>, ps, ls)
    ELSE IF Head(ls).kind = "CurDir" THEN Walk(ps, Tail(ls))
    ELSE IF Head(ls).kind = "ParentDir"
      THEN IF Len(ps) = 1 THEN WalkRet("Err", NoEntry, "InvalidInput", <<>>, ps, ls)
           ELSE Walk(Pop(ps), Tail(ls))
    ELSE IF ps[Len(ps)].kind = "Dir"
      THEN WalkRet("find", NoEntry, "", Head(ls).name, ps, Tail(ls))
    ELSE WalkRet("Err", NoEntry, "InvalidInput", <<>>, ps, ls)

\* No Dir call has been made by the open in progress: the iterator and the
\* buffer of an earlier call are gone.
NoLookup ==
    /\ call' = DirCall("none", <<>>, 0, 0)
    /\ ret' = DirRet("Pending", NoEntry, "")
    /\ dir_start' = 0 /\ chain_curr' = 0 /\ chain_buf' = <<>> /\ chain_total' = 0
    /\ entries' = <<>> /\ next' = 0 /\ yielded' = <<>>

\* open goes on from what the walk w came to, made calls of find behind it,
\* h accesses held and re telling whether one was asked for while held:
\* it returns, or it calls dir.find(name) on the Dir on top of the stack
\* (Dir::find up to the call of read_chain, as in Find)
OpenContinue(w, made, h, re) ==
    /\ parents' = w.parents
    /\ lasts' = w.lasts
    /\ IF w.kind = "find" /\ to_str(w.name).kind # "Err"
         THEN held' = Borrowed(h) /\ reentered' = (re \/ h > 0)
         ELSE held' = h /\ reentered' = re
    /\ IF w.kind = "find"
         THEN /\ opened' = DirRet("Pending", NoEntry, "")
              /\ finds' = made + 1
              /\ call' = DirCall("find", w.name, 0, 0)
              /\ dir_start' = w.parents[Len(w.parents)].start_cluster
              /\ entries' = <<>> /\ next' = 0 /\ yielded' = <<>>
              /\ chain_buf' = <<>> /\ chain_total' = 0
              /\ IF to_str(w.name).kind = "Err"
                   THEN /\ pc' = "idle"
                        /\ ret' = DirRet("Err", NoEntry, "InvalidInput")
                        /\ chain_curr' = 0
                   ELSE /\ pc' = "chain"
                        /\ ret' = DirRet("Pending", NoEntry, "")
                        /\ chain_curr' = w.parents[Len(w.parents)].start_cluster
         ELSE /\ opened' = DirRet(w.kind, w.entry, w.err)
              /\ pc' = IF w.kind = "Panic" THEN "panicked" ELSE "idle"
              /\ finds' = made
              /\ IF made = 0 THEN NoLookup ELSE UNCHANGED <<call, ret, dirVars>>

\* FileSystem::open(path), up to its first call of find or its return
Open(path) ==
    /\ pc = "idle"
    /\ opened.kind # "Pending"
    /\ open_path' = path
    /\ \E comps \in {components(path)} :
         IF NotAbsolute(comps)
           THEN /\ opened' = DirRet("Err", NoEntry, "InvalidInput")
                /\ parents' = <<>> /\ lasts' = <<>> /\ finds' = 0
                /\ NoLookup
                /\ AcquireRelease
                /\ UNCHANGED pc
           ELSE \E w \in {Walk(<<Dir_root(root_dir_cluster)>>, Tail(comps))} :
                  OpenContinue(w, 0, Dropped(Borrowed(held)), reentered \/ held > 0)
    /\ UNCHANGED <<fatVars, vfatVars, fileVars, histVars, mountVars, cacheVars,
                   allocVars, buildVars, handleVars, walkVars, clusterVars,
                   curr_buf, total, got, root_dir_cluster>>

\* open after dir.find(c) has returned: `?` hands an error on, otherwise the
\* entry is pushed and the loop goes on
OpenResume ==
    /\ pc = "idle"
    /\ opened.kind = "Pending"
    /\ IF ret.kind = "Err"
         THEN /\ opened' = ret
              /\ UNCHANGED <<parents, lasts, finds, pc, call, ret, dirVars, sharedVars>>
         ELSE \E w \in {Walk(Append(parents, ret.entry), lasts)} :
                OpenContinue(w, finds, held, reentered)
    /\ UNCHANGED <<fatVars, vfatVars, fileVars, histVars, mountVars, cacheVars,
                   allocVars, buildVars, handleVars, walkVars, clusterVars,
                   curr_buf, total, got, root_dir_cluster, open_path>>

(***************************************************************************)
(* The directory trees and the paths the model explores                    *)
(***************************************************************************)
MaxDepth == 3         \* a path holds 0..MaxDepth segments between its separators

\* An entry of a directory: its name, how it is stored and what it names.
ESub  == [name |-> <<83, 85, 66>>, nm |-> <<83, 85, 66>>, ext |-> <<>>,
          dir |-> TRUE, cluster |-> 3, long |-> FALSE]            \* SUB
EIn   == [name |-> <<73, 78>>, nm |-> <<73, 78>>, ext |-> <<>>,
          dir |-> TRUE, cluster |-> 5, long |-> FALSE]            \* IN
EFile == [name |-> <<65, 46, 84, 88, 84>>, nm |-> <<65>>, ext |-> <<84, 88, 84>>,
          dir |-> FALSE, cluster |-> 4, long |-> FALSE]           \* A.TXT
ELong == [name |-> <<115, 117, 98>>, nm |-> <<83, 126, 49>>, ext |-> <<>>,
          dir |-> TRUE, cluster |-> 3, long |-> TRUE]             \* sub, stored as S~1

\* The records an entry is stored as.
EntryRecords(e) ==
    (IF e.long THEN <<LfnRecord(65, e.name)>> ELSE <<>>)
      \o <<RegularRecord(e.nm, e.ext, IF e.dir THEN 16 ELSE 32, e.cluster)>>

RECURSIVE DirRecords(_)
DirRecords(es) == IF es = <<>> THEN <<>> ELSE EntryRecords(Head(es)) \o DirRecords(Tail(es))

\* Trees: the entries of the directory in each cluster.
Tree(c2, c3, c5) ==
    [c \in 2..MaxCluster |-> IF c = 2 THEN c2 ELSE IF c = 3 THEN c3
                              ELSE IF c = 5 THEN c5 ELSE <<>>]
Trees ==
    {Tree(<<ESub, EFile>>, <<EIn>>, <<>>),
     Tree(<<EFile, ESub>>, <<EIn>>, <<>>),
     Tree(<<ESub, EIn>>, <<EIn>>, <<ESub>>),
     Tree(<<ELong>>, <<EIn>>, <<>>),
     Tree(<<>>, <<>>, <<>>)}

\* The segments paths are made of: ".", "..", "SUB", "in", "A.TXT", "none".
Segments ==
    {<<46>>, <<46, 46>>, <<83, 85, 66>>, <<105, 110>>, <<65, 46, 84, 88, 84>>,
     <<110, 111, 110, 101>>}

\* The path with the segments segs, behind a '/' if absolute.
RECURSIVE Joined(_)
Joined(segs) ==
    IF segs = <<>> THEN <<>>
    ELSE IF Len(segs) = 1 THEN segs[1]
    ELSE segs[1] \o <<47>> \o Joined(Tail(segs))
SegmentLists(d) == UNION {[1..n -> Segments] : n \in 0..d}
\* Absolute paths, one of them with a doubled and a trailing separator, and
\* shorter relative ones, the empty path among them.
Paths ==
    {<<47>> \o Joined(segs) : segs \in SegmentLists(MaxDepth)}
      \cup {<<47, 47, 83, 85, 66, 47>>}
      \cup {Joined(segs) : segs \in SegmentLists(MaxDepth - 1)}

\* The volumes: a tree, its root cluster and whether the FAT entry of
\* cluster 5 is Free instead of the end of a chain.
Volumes ==
    {<<t, 2, FALSE>> : t \in Trees}
      \cup {<<Tree(<<ESub, EIn>>, <<EIn>>, <<ESub>>), 3, FALSE>>,
            <<Tree(<<ESub, EFile>>, <<EIn>>, <<>>), 2, TRUE>>}

\* The sectors of the data region when every cluster holds the directory
\* the tree t gives it, its records followed by end-of-directory records.
TreeDisk(t) ==
    [sec \in 4..(4 + 2 * (MaxCluster - 1) - 1) |->
        LET recs == DirRecords(t[2 + (sec - 4) \div 2])
            k    == ((sec - 4) % 2) + 1
        IN  IF k <= Len(recs) THEN recs[k] ELSE RecEnd]

\* A mounted volume with sectors of 32 bytes and clusters of 2 sectors, the
\* data region starting at sector 4; no open has been called yet.
TreeInit ==
    /\ bytes_per_sector = EntrySize
    /\ sectors_per_cluster = 2
    /\ data_start_sector = 4
    /\ \E v \in Volumes :
         /\ root_dir_cluster = v[2]
         /\ fat = IF v[3] THEN [DirFat(1) EXCEPT ![5] = U32(0, 0)] ELSE DirFat(1)
         /\ disk = TreeDisk(v[1])
    /\ open_path = <<>> /\ parents = <<>> /\ lasts = <<>> /\ finds = 0
    /\ opened = DirRet("none", NoEntry, "")

InitOpen == FatIdle /\ TreeInit /\ FileIdle /\ CallIdle /\ ClusterIdle /\ SharedIdle /\ AllocIdle /\ BuildIdle /\ HandleIdle /\ WalkIdle /\ HistOff /\ DirIdle /\ DeviceIdle

NextOpen ==
    \/ \E path \in Paths : Open(path)
    \/ OpenResume
    \/ ChainLoop
    \/ FindLoop

\* Every call of open on one mounted volume.
SpecOpen == InitOpen /\ [][NextOpen]_vars

(***************************************************************************)
(* mbr.rs, ebpb.rs and VFat::from                                          *)
(***************************************************************************)
\* A u32 field stored little-endian at byte offset off of the record r.
U32At(r, off) ==
    r[off + 1] + 256 * r[off + 2] + 65536 * r[off + 3] + 16777216 * r[off + 4]

\* BlockDevice::read_sector(n, buf): min(sector_size, buf.len()) bytes of
\* sector n, or an I/O error for a sector the device does not have
DeviceRead(n, buflen) ==
    IF n \in DOMAIN device THEN Ok(SubSeq(device[n], 1, Min(buflen, dev_sector_size)))
    ELSE Err("Io")

\* MasterBootRecord.partitions[i] and the fields of a PartitionEntry
PartitionAt(buf, i) == BytesAt(buf, 446 + 16 * i, 16)
boot_indicator(p)   == p[1]
partition_type(p)   == p[5]
relative_sector(p)  == U32At(p, 8)
total_sectors(p)    == U32At(p, 12)
\* MasterBootRecord.signature and BiosParameterBlock.boot_sector_signature
signature(buf)      == BytesAt(buf, 510, 2)

\* The fields of a BiosParameterBlock that VFat::from reads
bpb_bytes_per_sector(b)    == U16At(b, 11)
bpb_sectors_per_cluster(b) == b[14]
reserved_sectors(b)        == U16At(b, 14)
number_of_fats(b)          == b[17]
total_sectors_32(b)        == U32At(b, 32)
sectors_per_fat_32(b)      == U32At(b, 36)
bpb_root_dir_cluster(b)    == U32At(b, 44)

\* What MasterBootRecord::from and BiosParameterBlock::from hand back.
ParseRet(kind, tag, i, buf) == [kind |-> kind, tag |-> tag, i |-> i, buf |-> buf]

\* mbr.rs lines 71-75 with the last slot left out
BootIndicators_three(buf, i) ==
    LET bad == {j \in i..2 : boot_indicator(PartitionAt(buf, j)) \notin {0, 128}} IN
    IF bad = {} THEN ParseRet("Ok", "", 0, buf)
    ELSE ParseRet("Err", "UnknownBootIndicator", CHOOSE j \in bad : \A k \in bad : j <= k, buf)

\* mbr.rs lines 71-75: the loop over the partitions from slot i on
RECURSIVE BootIndicators(_, _)
BootIndicators(buf, i) ==
    IF i = 4 THEN ParseRet("Ok", "", 0, buf)
    ELSE IF boot_indicator(PartitionAt(buf, i)) # 0 /\ boot_indicator(PartitionAt(buf, i)) # 128
      THEN ParseRet("Err", "UnknownBootIndicator", i, buf)
    ELSE BootIndicators(buf, i + 1)

\* mbr.rs lines 67-77 with the signature tested after the loop
MbrParse_loop_first(buf) ==
    IF BootIndicators(buf, 0).kind = "Err" THEN BootIndicators(buf, 0)
    ELSE IF signature(buf) # <<85, 170>> THEN ParseRet("Err", "BadSignature", 0, buf)
    ELSE ParseRet("Ok", "", 0, buf)

\* mbr.rs lines 65-77: the record transmuted and validated
MbrParse(buf) ==
    IF signature(buf) # <<85, 170>> THEN ParseRet("Err", "BadSignature", 0, buf)
    ELSE BootIndicators(buf, 0)

\* mbr.rs lines 55-63 and ebpb.rs lines 52-60: r is what read_sector returned
ShortRead(r) == r.kind = "Err" \/ r.n < 512

\* MasterBootRecord::from(device)
MbrAfterRead(r) ==
    IF ShortRead(r) THEN ParseRet("Err", "Io", 0, <<>>) ELSE MbrParse(r.bytes)
MasterBootRecord_from ==
    IF ~(dev_sector_size >= 512)
      THEN ParseRet("Panic", "assertion failed: device.sector_size() >= 512", 0, <<>>)
      ELSE MbrAfterRead(DeviceRead(0, 512))

\* BiosParameterBlock::from(device, sector)
BpbAfterRead(r) ==
    IF ShortRead(r) THEN ParseRet("Err", "Io", 0, <<>>)
    ELSE IF signature(r.bytes) # <<85, 170>> THEN ParseRet("Err", "BadSignature", 0, r.bytes)
    ELSE ParseRet("Ok", "", 0, r.bytes)
BiosParameterBlock_from(sector) ==
    IF ~(dev_sector_size >= 512)
      THEN ParseRet("Panic", "assertion failed: device.sector_size() >= 512", 0, <<>>)
      ELSE BpbAfterRead(DeviceRead(sector, 512))

\* vfat.rs lines 36-40 taking the last FAT32 slot instead of the first
FindPartition_last(buf, i) ==
    LET m == {j \in i..3 : partition_type(PartitionAt(buf, j)) \in {11, 12}} IN
    IF m = {} THEN 4 ELSE CHOOSE j \in m : \A k \in m : j >= k

\* vfat.rs lines 36-40: mbr.partitions.iter().find(..) from slot i on; 4 for None
RECURSIVE FindPartition(_, _)
FindPartition(buf, i) ==
    IF i = 4 THEN 4
    ELSE IF partition_type(PartitionAt(buf, i)) \in {11, 12} THEN i
    ELSE FindPartition(buf, i + 1)

\* vfat.rs lines 44-46 with the comparison left out
SizesAgree_any(sectors, bps, total32) == TRUE

\* vfat.rs lines 44-46: the partition entry's size against the BPB's
SizesAgree(sectors, bps, total32) == sectors = (bps * total32) \div dev_sector_size

\* vfat.rs lines 51-58: the assertion on the BPB b
WithinFat(b) ==
    LET max_clusters == (sectors_per_fat_32(b) * bpb_bytes_per_sector(b)) \div FAT_ENTRY_SIZE IN
    total_sectors_32(b) <= reserved_sectors(b)
                             + number_of_fats(b) * sectors_per_fat_32(b)
                             + bpb_sectors_per_cluster(b) * max_clusters

\* What VFat::from hands back: a result, the device reads made, and the
\* fields of the VFat and of its CachedDevice.
MountErr(tag, mbr, i) == [tag |-> tag, mbr |-> mbr, i |-> i]
MountRet(kind, err, reads, pe, b) ==
    [kind |-> kind, err |-> err, reads |-> reads,
     bytes_per_sector    |-> bpb_bytes_per_sector(b),
     sectors_per_cluster |-> bpb_sectors_per_cluster(b),
     sectors_per_fat     |-> sectors_per_fat_32(b),
     fat_start_sector    |-> relative_sector(pe) + reserved_sectors(b),
     data_start_sector   |-> relative_sector(pe) + reserved_sectors(b)
                               + number_of_fats(b) * sectors_per_fat_32(b),
     root_dir_cluster    |-> bpb_root_dir_cluster(b),
     partition |-> [start |-> relative_sector(pe), sector_size |-> bpb_bytes_per_sector(b)]]
NoRecord == [i \in 1..512 |-> 0]
MountFail(kind, err, reads) == MountRet(kind, err, reads, NoRecord, NoRecord)

\* vfat.rs lines 44-75 and CachedDevice::new: pe the partition entry, b the BPB
FromGeometry(pe, b, reads) ==
    IF ~SizesAgree(total_sectors(pe), bpb_bytes_per_sector(b), total_sectors_32(b))
      THEN MountFail("Panic", MountErr("partition size between MBR and BPB mismatch", FALSE, 0),
                     reads)
    ELSE IF ~WithinFat(b)
      THEN MountFail("Panic", MountErr("assertion failed: total_sectors_32 <= ..", FALSE, 0),
                     reads)
    ELSE IF ~(bpb_bytes_per_sector(b) >= dev_sector_size)
      THEN MountFail("Panic",
                     MountErr("assertion failed: partition.sector_size >= device.sector_size()",
                              FALSE, 0), reads)
    ELSE MountRet("Ok", MountErr("", FALSE, 0), reads, pe, b)

\* vfat.rs line 42: r is what BiosParameterBlock::from returned
FromBpb(pe, r) ==
    IF r.kind = "Ok" THEN FromGeometry(pe, r.buf, <<0, relative_sector(pe)>>)
    ELSE MountFail(r.kind, MountErr(r.tag, FALSE, 0), <<0, relative_sector(pe)>>)

\* vfat.rs lines 36-42: i is what find returned
FromPartition(buf, i) ==
    IF i = 4 THEN MountFail("Err", MountErr("NotFound", FALSE, 0), <<0>>)
    ELSE FromBpb(PartitionAt(buf, i),
                 BiosParameterBlock_from(relative_sector(PartitionAt(buf, i))))

\* vfat.rs line 33: m is what MasterBootRecord::from returned, its error
\* converted into a vfat::Error that wraps it
FromMbr(m) ==
    IF m.kind = "Panic" THEN MountFail("Panic", MountErr(m.tag, TRUE, 0), <<>>)
    ELSE IF m.kind = "Err" THEN MountFail("Err", MountErr(m.tag, TRUE, m.i), <<0>>)
    ELSE FromPartition(m.buf, FindPartition(m.buf, 0))

\* VFat::from(device)
VFat_from == FromMbr(MasterBootRecord_from)

Mount ==
    /\ mounted.kind = "none"
    /\ dev_sector_size # 0
    /\ \E r \in {VFat_from} :
         /\ mounted' = [kind |-> r.kind, err |-> r.err]
         /\ dev_reads' = r.reads
         /\ IF r.kind = "Ok"
              THEN /\ bytes_per_sector' = r.bytes_per_sector
                   /\ sectors_per_cluster' = r.sectors_per_cluster
                   /\ data_start_sector' = r.data_start_sector
                   /\ sectors_per_fat' = r.sectors_per_fat
                   /\ fat_start_sector' = r.fat_start_sector
                   /\ root_dir_cluster' = r.root_dir_cluster
                   /\ partition' = r.partition
              ELSE UNCHANGED <<bytes_per_sector, sectors_per_cluster, data_start_sector,
                               sectors_per_fat, fat_start_sector, root_dir_cluster,
                               partition>>
    /\ UNCHANGED <<fatVars, fat, disk, fileVars, callVars, histVars, dirVars,
                   open_path, parents, lasts, opened, finds,
                   dev_sector_size, device, dev_writes, cacheVars, allocVars, buildVars, handleVars, walkVars, clusterVars,
                   sharedVars>>

(***************************************************************************)
(* The devices the model mounts                                            *)
(***************************************************************************)
LE32(v) == <<v % 256, (v \div 256) % 256, (v \div 65536) % 256, v \div 16777216>>
Zeros(n) == [i \in 1..n |-> 0]

\* A partition table slot and the 512 bytes of an MBR with four of them.
Slot(ind, type, start, sectors) ==
    <<ind, 0, 0, 0, type, 0, 0, 0>> \o LE32(start) \o LE32(sectors)
MbrRecord(slots, sig) ==
    Zeros(446) \o slots[1] \o slots[2] \o slots[3] \o slots[4] \o sig

\* The 512 bytes of a BPB with the fields VFat::from reads.
BpbRecord(bps, spc, reserved, fats, total32, spf, root, sig) ==
    Zeros(11) \o LE16(bps) \o <<spc>> \o LE16(reserved) \o <<fats>> \o Zeros(15)
      \o LE32(total32) \o LE32(spf) \o Zeros(4) \o LE32(root) \o Zeros(462) \o sig

SigOk  == <<85, 170>>
SigBad == <<85, 171>>

\* Slots: unused; FAT32 (0x0B) at sector 1, bootable; FAT32 (0x0C) at sector
\* 2; a Linux partition; FAT32 with the boot indicator 0x01; FAT32 at a
\* sector the device does not have.
SlotPool ==
    {Slot(0, 0, 0, 0), Slot(128, 11, 1, 40), Slot(0, 12, 2, 40), Slot(0, 131, 1, 40),
     Slot(1, 12, 2, 40), Slot(0, 12, 9, 40)}

\* A device of three sectors of size bytes holding the records r0, r1, r2.
Device(size, r0, r1, r2) ==
    [size |-> size,
     sectors |-> [n \in 0..2 |->
                    SubSeq((IF n = 0 THEN r0 ELSE IF n = 1 THEN r1 ELSE r2) \o Zeros(512),
                           1, size)]]

\* Every partition table over two well-formed volumes, and every geometry
\* behind one partition table, on devices with sectors of 512 and 1024
\* bytes; and a device with sectors of 256 bytes.
Devices ==
    {Device(512, MbrRecord(slots, sig),
            BpbRecord(512, 1, 2, 2, 40, 1, 2, SigOk),
            BpbRecord(512, 2, 4, 2, 40, 1, 3, SigOk)) :
        slots \in [1..4 -> SlotPool], sig \in {SigOk, SigBad}}
    \cup
    {Device(size, MbrRecord(<<Slot(128, 11, 1, sectors), Slot(0, 0, 0, 0),
                              Slot(0, 0, 0, 0), Slot(0, 0, 0, 0)>>, SigOk),
            BpbRecord(bps, 1, 2, 2, total32, 1, 2, sig), Zeros(512)) :
        size \in {512, 1024}, sectors \in {20, 40, 60, 80, 200},
        bps \in {512, 768, 1024}, total32 \in {40, 200}, sig \in {SigOk, SigBad}}
    \cup
    {Device(256, MbrRecord([i \in 1..4 |-> Slot(0, 0, 0, 0)], SigOk), Zeros(512), Zeros(512))}

DeviceInit ==
    /\ \E d \in Devices : dev_sector_size = d.size /\ device = d.sectors
    /\ dev_reads = <<>> /\ dev_writes = <<>>
    /\ mounted = [kind |-> "none", err |-> MountErr("", FALSE, 0)]
    /\ sectors_per_fat = 0 /\ fat_start_sector = 0
    /\ partition = [start |-> 0, sector_size |-> 0]
    /\ cache = <<>>
    /\ sector_ret = [op |-> "none", sector |-> 0, kind |-> "none", n |-> 0, err |-> "",
                     bytes |-> <<>>]
    /\ written = {} /\ marked = {}

InitMount ==
    FatIdle /\ MountIdle /\ FileIdle /\ CallIdle /\ ClusterIdle /\ SharedIdle /\ AllocIdle /\ BuildIdle /\ HandleIdle /\ WalkIdle /\ HistOff /\ DirIdle /\ OpenIdle /\ DeviceInit

\* VFat::from on every device.
SpecMount == InitMount /\ [][Mount]_vars

(***************************************************************************)
(* cache.rs: CachedDevice                                                  *)
(***************************************************************************)
MaxPhys   == 6        \* the device has the physical sectors 0..MaxPhys-1
MaxSector == 4        \* the sectors 0..MaxSector are asked for

\* cache.rs lines 62-74 with the partition's start left out of the result
virtual_to_physical_relative(virt) ==
    IF dev_sector_size = partition.sector_size THEN <<virt, 1>>
    ELSE IF virt < partition.start THEN <<virt, 1>>
    ELSE <<(virt - partition.start) * (partition.sector_size \div dev_sector_size),
           partition.sector_size \div dev_sector_size>>

\* CachedDevice::virtual_to_physical(virt): <<physical sector, factor>>
virtual_to_physical(virt) ==
    IF dev_sector_size = partition.sector_size THEN <<virt, 1>>
    ELSE IF virt < partition.start THEN <<virt, 1>>
    ELSE LET factor          == partition.sector_size \div dev_sector_size
             logical_offset  == virt - partition.start
             physical_offset == logical_offset * factor
             physical_sector == partition.start + physical_offset
         IN  <<physical_sector, factor>>

\* BlockDevice::read_all_sector(n, buf): the whole of sector n appended to
\* buf, or an I/O error
read_all_sector(n, buf) ==
    IF n \in DOMAIN device THEN Ok(buf \o device[n]) ELSE Err("Io")

\* What get_helper comes to: the entry, whether it was inserted, and the
\* device reads made.
HelperRet(kind, entry, inserted, reads) ==
    [kind |-> kind, entry |-> entry, inserted |-> inserted, reads |-> reads]
CacheEntry(data, dirty) == [data |-> data, dirty |-> dirty]

\* get_helper, lines 110-113: the loop for i in 0..factor from i on
RECURSIVE FillLoop(_, _, _, _, _)
FillThen(r, first, factor, i, reads) ==
    IF r.kind = "Err" THEN HelperRet("Err", CacheEntry(<<>>, FALSE), FALSE, reads)
    ELSE FillLoop(first, factor, i + 1, r.bytes, reads)
FillLoop(first, factor, i, buf, reads) ==
    IF i >= factor THEN HelperRet("Ok", CacheEntry(buf, TRUE), TRUE, reads)
    ELSE FillThen(read_all_sector(first + i, buf), first, factor, i, Append(reads, first + i))

\* A get_helper that fills the entry from the device on every call.
get_helper_refill(sector) ==
    FillLoop(virtual_to_physical(sector)[1], virtual_to_physical(sector)[2], 0,
             <<>>, <<>>)

\* CachedDevice::get_helper(sector)
get_helper(sector) ==
    IF sector \in DOMAIN cache THEN HelperRet("Ok", cache[sector], FALSE, <<>>)
    ELSE FillLoop(virtual_to_physical(sector)[1], virtual_to_physical(sector)[2], 0,
                  <<>>, <<>>)

\* A cache that writes every dirty entry it returns through to the device.
DeviceWrites_through(sector, e) ==
    IF e.dirty THEN <<[n |-> sector, bytes |-> e.data]>> ELSE <<>>

\* The write_sector calls on the device that a cache operation returning
\* the entry e of `sector` makes: get_helper only reads the device, and
\* write_sector writes to the slice get_mut hands it.
DeviceWrites(sector, e) == <<>>

\* The cache with the entry e for sector.
Cached(sector, e) ==
    [n \in DOMAIN cache \cup {sector} |-> IF n = sector THEN e ELSE cache[n]]

SectorRet(op, sector, r) ==
    [op |-> op, sector |-> sector, kind |-> r.kind, n |-> r.n, err |-> r.err,
     bytes |-> r.bytes]

CacheFrame ==
    UNCHANGED <<fatVars, vfatVars, fileVars, callVars, histVars, dirVars, openVars,
                dev_sector_size, device, mounted, sectors_per_fat, fat_start_sector,
                partition, clusterVars, sharedVars, allocVars, buildVars, handleVars, walkVars>>

\* CachedDevice::get(sector)
Get(sector) ==
    /\ dev_sector_size # 0 /\ mounted.kind = "Ok"
    /\ \E h \in {get_helper(sector)} :
         /\ dev_reads' = h.reads
         /\ dev_writes' = dev_writes \o DeviceWrites(sector, h.entry)
         /\ IF h.kind = "Err"
              THEN /\ sector_ret' = SectorRet("get", sector, Err("Io"))
                   /\ UNCHANGED cache
              ELSE /\ sector_ret' = SectorRet("get", sector, Ok(h.entry.data))
                   /\ cache' = Cached(sector, h.entry)
    /\ UNCHANGED <<written, marked>>
    /\ CacheFrame

\* CachedDevice::get_mut(sector)
GetMut(sector) ==
    /\ dev_sector_size # 0 /\ mounted.kind = "Ok"
    /\ \E h \in {get_helper(sector)} :
         /\ dev_reads' = h.reads
         /\ dev_writes' = dev_writes \o DeviceWrites(sector, h.entry)
         /\ IF h.kind = "Err"
              THEN /\ sector_ret' = SectorRet("get_mut", sector, Err("Io"))
                   /\ UNCHANGED <<cache, marked>>
              ELSE /\ sector_ret' = SectorRet("get_mut", sector, Ok(h.entry.data))
                   /\ cache' = Cached(sector, [h.entry EXCEPT !.dirty = TRUE])
                   /\ marked' = marked \cup {sector}
    /\ UNCHANGED written
    /\ CacheFrame

\* impl BlockDevice for CachedDevice: read_sector(n, buf), len the length of buf
CachedReadSector(n, len) ==
    /\ dev_sector_size # 0 /\ mounted.kind = "Ok"
    /\ \E h \in {get_helper(n)} :
         /\ dev_reads' = h.reads
         /\ dev_writes' = dev_writes \o DeviceWrites(n, h.entry)
         /\ IF h.kind = "Err"
              THEN /\ sector_ret' = SectorRet("read_sector", n, Err("Io"))
                   /\ UNCHANGED cache
              ELSE /\ sector_ret' = SectorRet("read_sector", n,
                                              Ok(SubSeq(h.entry.data, 1,
                                                        Min(len, Len(h.entry.data)))))
                   /\ cache' = Cached(n, h.entry)
    /\ UNCHANGED <<written, marked>>
    /\ CacheFrame

\* impl BlockDevice for CachedDevice: write_sector(n, buf)
CachedWriteSector(n, buf) ==
    /\ dev_sector_size # 0 /\ mounted.kind = "Ok"
    /\ \E h \in {get_helper(n)} :
         /\ dev_reads' = h.reads
         /\ dev_writes' = dev_writes \o DeviceWrites(n, h.entry)
         /\ IF h.kind = "Err"
              THEN /\ sector_ret' = SectorRet("write_sector", n, Err("Io"))
                   /\ UNCHANGED <<cache, written, marked>>
              ELSE LET k == Min(Len(buf), Len(h.entry.data)) IN
                   /\ sector_ret' = SectorRet("write_sector", n, [Ok(<<>>) EXCEPT !.n = k])
                   /\ cache' = Cached(n, CacheEntry(SubSeq(buf, 1, k)
                                                      \o SubSeq(h.entry.data, k + 1,
                                                                Len(h.entry.data)),
                                                    TRUE))
                   /\ written' = IF k > 0 THEN written \cup {n} ELSE written
                   /\ marked' = marked \cup {n}
    /\ CacheFrame

\* A CachedDevice as CachedDevice::new leaves it, on a device with sectors
\* of 2 bytes, every byte of it distinct, for partitions with sectors of 2,
\* 3, 4 and 6 bytes that start at sector 0, 1 or 2.
CacheInit ==
    /\ dev_sector_size = 2
    /\ device = [n \in 0..(MaxPhys - 1) |-> <<10 * n, 10 * n + 1>>]
    /\ partition \in [start : 0..2, sector_size : {2, 3, 4, 6}]
    /\ dev_reads = <<>> /\ dev_writes = <<>>
    /\ mounted = [kind |-> "Ok", err |-> MountErr("", FALSE, 0)]
    /\ sectors_per_fat = 0 /\ fat_start_sector = 0
    /\ cache = <<>>
    /\ sector_ret = [op |-> "none", sector |-> 0, kind |-> "none", n |-> 0, err |-> "",
                     bytes |-> <<>>]
    /\ written = {} /\ marked = {}

InitCache ==
    FatIdle /\ MountIdle /\ FileIdle /\ CallIdle /\ ClusterIdle /\ SharedIdle /\ AllocIdle /\ BuildIdle /\ HandleIdle /\ WalkIdle /\ HistOff /\ DirIdle /\ OpenIdle /\ CacheInit

NextCache ==
    \/ \E sector \in 0..MaxSector : Get(sector)
    \/ \E sector \in 0..MaxSector : GetMut(sector)
    \/ \E n \in 0..MaxSector, len \in {1, 8} : CachedReadSector(n, len)
    \/ \E n \in 0..MaxSector : CachedWriteSector(n, <<255>>)

\* Every call on one CachedDevice.
SpecCache == InitCache /\ [][NextCache]_vars

(***************************************************************************)
(* vfat.rs: read_cluster and read_chain called on their own                *)
(***************************************************************************)
\* What a call hands back: the result and the caller's buffer after it.
VRet(r, buf) == [kind |-> r.kind, n |-> r.n, err |-> r.err, buf |-> buf]
VCall(op, cluster, offset, buf) ==
    [op |-> op, cluster |-> cluster, offset |-> offset, buf |-> buf]

\* buf with the bytes a read copied put at index `at` (counted from 0)
Copied(buf, at, bytes) ==
    SubSeq(buf, 1, at) \o bytes \o SubSeq(buf, at + Len(bytes) + 1, Len(buf))

ClusterFrame ==
    UNCHANGED <<fatVars, vfatVars, fileVars, histVars, dirVars, openVars, mountVars,
                cacheVars, allocVars, buildVars, handleVars, walkVars, sharedVars, curr_buf, total, got, call, ret>>

\* VFat::read_cluster(cluster, offset, buf)
ReadCluster(cluster, offset, buf) ==
    /\ pc = "idle"
    /\ \E r \in {read_cluster(cluster, offset, Len(buf))} :
         /\ vcall' = VCall("read_cluster", cluster, offset, buf)
         /\ vret' = VRet(r, Copied(buf, 0, r.bytes))
         /\ gets' = read_cluster_gets(cluster, offset, Len(buf))
         /\ pc' = IF r.kind = "Panic" THEN "panicked" ELSE "idle"
    /\ UNCHANGED <<vcurr, vbuf, vtotal>>
    /\ ClusterFrame

\* Vec::resize(new_len, 0x00) for a new_len not below the length
Resize_none(buf, new_len) == buf
Resize(buf, new_len) == buf \o [i \in 1..(new_len - Len(buf)) |-> 0]

\* VFat::read_chain(start, buf), lines 125-127
ReadChain(start, buf) ==
    /\ pc = "idle"
    /\ pc' = "read_chain"
    /\ vcall' = VCall("read_chain", start, 0, buf)
    /\ vret' = VRet(Pending, buf)
    /\ gets' = <<>>
    /\ vcurr' = start /\ vbuf' = buf /\ vtotal' = 0
    /\ ClusterFrame

\* read_chain returns r (or panics); its locals are gone.
ChainReturn(r, buf) ==
    /\ pc' = IF r.kind = "Panic" THEN "panicked" ELSE "idle"
    /\ vret' = VRet(r, buf)
    /\ vcurr' = 0 /\ vbuf' = <<>> /\ vtotal' = 0

\* A read_chain with a maximum chain length of no cluster: its loop gives
\* up with InvalidData.
ReadChainLoop_capped ==
    /\ pc = "read_chain"
    /\ ChainReturn(Err("InvalidData"), vbuf)
    /\ UNCHANGED <<vcall, gets>>
    /\ ClusterFrame

\* One turn of read_chain's loop, lines 130-141
ReadChainLoop ==
    /\ pc = "read_chain"
    /\ vtotal < MaxChain * cluster_size
    /\ LET init_len == Len(vcall.buf)
           resized  == Resize(vbuf, Len(vbuf) + cluster_size)
           rc       == read_cluster(vcurr, 0, Len(resized) - (init_len + vtotal))
           buf      == Copied(resized, init_len + vtotal, rc.bytes)
           asked    == gets \o read_cluster_gets(vcurr, 0, Len(resized) - (init_len + vtotal))
           st       == status(fat_entry(vcurr))
       IN
       /\ IF ~(Len(resized) >= init_len + vtotal + cluster_size)
            THEN /\ ChainReturn(Panic("assertion failed: buf.len() >= init_len + total + cluster_size"), resized)
                 /\ gets' = gets
          ELSE IF rc.kind = "Err"
            THEN /\ ChainReturn(Err(rc.err), buf)
                 /\ gets' = asked
          ELSE IF rc.kind = "Panic" \/ rc.n # cluster_size
            THEN /\ ChainReturn(Panic("assertion failed in read_chain"), buf)
                 /\ gets' = asked
          ELSE
            /\ gets' = Append(asked, fat_entry_sector(vcurr))
            /\ IF st.tag = "Eoc"
                 THEN ChainReturn([Ok(<<>>) EXCEPT !.n = vtotal + rc.n], buf)
               ELSE IF st.tag = "Data"
                 THEN /\ vcurr' = st.val
                      /\ vbuf' = buf
                      /\ vtotal' = vtotal + rc.n
                      /\ UNCHANGED <<pc, vret>>
               ELSE ChainReturn(Err("InvalidData"), buf)
    /\ UNCHANGED vcall
    /\ ClusterFrame

\* The caller's buffers: no byte of them is a byte of the disk.
Filler(n) == [i \in 1..n |-> 200 + i]

\* Mounted volumes whose FAT (one copy, MaxCluster + 1 entries) starts at
\* sector 1 and is followed by the data region: clusters of 2 sectors of 4
\* bytes and of 3 sectors of 2 bytes.
ClusterInit ==
    /\ \E g \in {<<4, 2>>, <<2, 3>>} :
         /\ bytes_per_sector = g[1]
         /\ sectors_per_cluster = g[2]
         /\ sectors_per_fat = ((MaxCluster + 1) * FAT_ENTRY_SIZE) \div g[1]
    /\ fat_start_sector = 1
    /\ data_start_sector = fat_start_sector + sectors_per_fat
    /\ disk = PatternDisk(bytes_per_sector, sectors_per_cluster, data_start_sector)
    /\ fat \in {FatLinear, FatScrambled, FatBroken, FatCyclic}
    /\ dev_sector_size = 0 /\ device = <<>> /\ dev_reads = <<>> /\ dev_writes = <<>>
    /\ mounted = [kind |-> "none", err |-> [tag |-> "", mbr |-> FALSE, i |-> 0]]
    /\ partition = [start |-> 0, sector_size |-> 0]
    /\ cache = <<>>
    /\ sector_ret = [op |-> "none", sector |-> 0, kind |-> "none", n |-> 0, err |-> "",
                     bytes |-> <<>>]
    /\ written = {} /\ marked = {}

InitCluster ==
    FatIdle /\ ClusterInit /\ FileIdle /\ CallIdle /\ ClusterIdle /\ SharedIdle /\ AllocIdle /\ BuildIdle /\ HandleIdle /\ WalkIdle /\ HistOff /\ DirIdle /\ OpenIdle

NextCluster ==
    \/ \E cluster \in 2..MaxCluster, offset \in 0..cluster_size,
          len \in 0..(cluster_size + 1) : ReadCluster(cluster, offset, Filler(len))
    \/ \E start \in 2..MaxCluster, len \in {0, 3} : ReadChain(start, Filler(len))
    \/ ReadChainLoop

\* Every call of read_cluster and read_chain on one mounted volume.
SpecCluster == InitCluster /\ [][NextCluster]_vars

\* The same, with read_chain's loop running on while it has not returned.
SpecClusterLive == SpecCluster /\ WF_vars(ReadChainLoop)

(***************************************************************************)
(* vfat.rs: read_cluster and read_chain on the cluster numbers of a        *)
(* corrupt image                                                           *)
(***************************************************************************)
\* 2 -> MaxCluster + 1, a cluster the FAT has no entry for
FatWild ==
    [c \in 0..MaxCluster |-> IF c = 2 THEN NextRaw(MaxCluster + 1) ELSE FatLinear[c]]

\* Byte o of the sector of the FAT that is s sectors into it
FatByte(f, bps, s, o) ==
    LET at == s * bps + o - 1
        e  == f[at \div FAT_ENTRY_SIZE]
    IN  CASE at % FAT_ENTRY_SIZE = 0 -> e.lo % 256
          [] at % FAT_ENTRY_SIZE = 1 -> (e.lo \div 256) % 256
          [] at % FAT_ENTRY_SIZE = 2 -> (e.lo \div 65536) % 256
          [] OTHER -> e.hi * 16 + (e.lo \div 16777216)

\* The sectors of a volume from its first on: a reserved sector of zeroes,
\* the FAT f, and a data region of MaxCluster + 2 clusters whose first four
\* bytes are FF FF FF 0F and whose other bytes are all distinct.
WholeDisk(f, bps, spc, first_fat, first_data) ==
    [s \in 0 .. first_data + spc * (MaxCluster + 2) - 1 |->
        [o \in 1..bps |->
            IF s < first_fat THEN 0
            ELSE IF s < first_data THEN FatByte(f, bps, s - first_fat, o)
            ELSE IF s = first_data /\ o <= 4 THEN (IF o = 4 THEN 15 ELSE 255)
            ELSE (s * bps + o - 1) % 256]]

\* Volumes with clusters of 2 sectors of 4 bytes and of 1 sector of 8 bytes,
\* their FAT of MaxCluster + 1 entries at sector 1, in either build.
CorruptInit ==
    /\ \E g \in {<<4, 2>>, <<8, 1>>} :
         /\ bytes_per_sector = g[1]
         /\ sectors_per_cluster = g[2]
         /\ sectors_per_fat = ((MaxCluster + 1) * FAT_ENTRY_SIZE) \div g[1]
    /\ fat_start_sector = 1
    /\ data_start_sector = fat_start_sector + sectors_per_fat
    /\ fat \in {FatLinear, FatWild}
    /\ disk = WholeDisk(fat, bytes_per_sector, sectors_per_cluster, fat_start_sector,
                        data_start_sector)
    /\ overflow_checks \in BOOLEAN
    /\ dev_sector_size = 0 /\ device = <<>> /\ dev_reads = <<>> /\ dev_writes = <<>>
    /\ mounted = [kind |-> "none", err |-> [tag |-> "", mbr |-> FALSE, i |-> 0]]
    /\ partition = [start |-> 0, sector_size |-> 0]
    /\ cache = <<>>
    /\ sector_ret = [op |-> "none", sector |-> 0, kind |-> "none", n |-> 0, err |-> "",
                     bytes |-> <<>>]
    /\ written = {} /\ marked = {}

InitCorrupt ==
    /\ FatIdle /\ CorruptInit /\ FileIdle /\ CallIdle /\ ClusterIdle /\ SharedIdle
    /\ AllocIdle /\ HandleIdle /\ WalkIdle /\ HistOff /\ DirIdle /\ OpenIdle

\* The reserved cluster numbers, a cluster of the FAT, and the two cluster
\* numbers that follow the last the FAT has an entry for
CorruptClusters == {0, 1, 2, MaxCluster + 1, MaxCluster + 2}

NextCorrupt ==
    \/ \E cluster \in CorruptClusters, offset \in {0, 1, cluster_size - 1},
          len \in {0, 1, cluster_size} : ReadCluster(cluster, offset, Filler(len))
    \/ \E start \in {0, 1, 2}, len \in {0, 3} : ReadChain(start, Filler(len))
    \/ ReadChainLoop

\* Every call of read_cluster and read_chain with such a cluster number.
SpecCorrupt == InitCorrupt /\ [][NextCorrupt]_vars

(***************************************************************************)
(* A File, a Dir, an EntryIter and open on one mount                       *)
(***************************************************************************)
\* "/", "/SUB", "/SUB/in", "/none/..", and the relative "SUB"
SharedPaths ==
    {<<47>>, <<47, 83, 85, 66>>, <<47, 83, 85, 66, 47, 105, 110>>,
     <<47, 110, 111, 110, 101, 47, 46, 46>>, <<83, 85, 66>>}

\* "sub", "none", and a byte string that is not UTF-8
SharedNames == {<<115, 117, 98>>, <<110, 111, 110, 101>>, <<83, 255>>}

SharedSeeks ==
    {[mode |-> "Start", v |-> Small(k)] : k \in {0, 2, file_size + 1}}
      \cup {[mode |-> "End", v |-> Small(0)], [mode |-> "Current", v |-> Small(1)]}

\* A mounted tree, a Dir handle on its root directory and a File handle on
\* the cluster of A.TXT, at offset 0, for a file of 0 or 5 bytes.
SharedInit ==
    /\ TreeInit
    /\ dir_start = root_dir_cluster
    /\ chain_curr = 0 /\ chain_buf = <<>> /\ chain_total = 0
    /\ entries = <<>> /\ next = 0 /\ yielded = <<>>
    /\ file_size \in {0, 5}
    /\ start_cluster = 4
    /\ absolute_offset = 0
    /\ curr_cluster = start_cluster

InitShared ==
    FatIdle /\ SharedInit /\ CallIdle /\ ClusterIdle /\ SharedIdle /\ AllocIdle /\ BuildIdle /\ HandleIdle /\ WalkIdle /\ HistOff /\ DeviceIdle

\* The program is single-threaded: a call is made when no call is under
\* way, open's calls of find included.
NoOpenUnderWay == opened.kind # "Pending"

NextShared ==
    \/ \E path \in SharedPaths : Open(path)
    \/ NoOpenUnderWay /\ Entries
    \/ \E name \in SharedNames : NoOpenUnderWay /\ Find(name)
    \/ NoOpenUnderWay /\ IterNext
    \/ \E len \in {0, 3, 8} : NoOpenUnderWay /\ ReadCall(len)
    \/ \E pos \in SharedSeeks : NoOpenUnderWay /\ Seek(pos)
    \/ OpenResume
    \/ ChainLoop
    \/ FindLoop
    \/ ReadLoop

\* Every sequence of calls on the handles of one mount.
SpecShared == InitShared /\ [][NextShared]_vars

(***************************************************************************)
(* file.rs, dir.rs: several handles live at once on one mount              *)
(***************************************************************************)
\* The fields of a File that its calls read and write.
FileOf(size, start, offset, curr) ==
    [file_size |-> size, start_cluster |-> start, absolute_offset |-> offset,
     curr_cluster |-> curr]

\* The File the calls are made on; `handles` holds the caller's other File.
Self == FileOf(file_size, start_cluster, absolute_offset, curr_cluster)

\* The caller turns to its other File: the calls that follow are made on
\* that handle, and the one called so far is kept for later.
Turn ==
    /\ pc = "idle"
    /\ handles # <<>>
    /\ handles' = <<Self>>
    /\ file_size' = handles[1].file_size
    /\ start_cluster' = handles[1].start_cluster
    /\ absolute_offset' = handles[1].absolute_offset
    /\ curr_cluster' = handles[1].curr_cluster
    /\ UNCHANGED <<fatVars, vfatVars, callVars, histVars, dirVars, openVars, mountVars,
                   cacheVars, allocVars, buildVars, walkVars, clusterVars, sharedVars>>

\* The caller's other File goes out of scope. File has no Drop of its own:
\* its fields are dropped, the handle's reference to the mount among them.
DropFile ==
    /\ pc = "idle"
    /\ handles # <<>>
    /\ handles' = <<>>
    /\ UNCHANGED <<fatVars, vfatVars, fileVars, callVars, histVars, dirVars, openVars,
                   mountVars, cacheVars, allocVars, buildVars, walkVars, clusterVars,
                   sharedVars>>

\* 4 -> 5 (Eoc): the chain of a file of two clusters; 2 and 3 hold directories
HandleFat == [c \in 0..MaxCluster |-> IF c = 4 THEN NextRaw(5) ELSE EocRaw(c)]

\* The sectors of the volume from its FAT on: the sector of the FAT, the
\* clusters of the root directory (SUB and A.TXT) and of SUB (IN), and the
\* two clusters of A.TXT, every byte of which is distinct.
HandleDisk ==
    [sec \in 3..(4 + 2 * (MaxCluster - 1) - 1) |->
        IF sec = 3
          THEN [o \in 1..EntrySize |->
                   IF (o - 1) \div FAT_ENTRY_SIZE <= MaxCluster
                     THEN FatByte(HandleFat, EntrySize, 0, o) ELSE 0]
        ELSE IF sec < 8 THEN TreeDisk(Tree(<<ESub, EFile>>, <<EIn>>, <<>>))[sec]
        ELSE [o \in 1..EntrySize |-> 1 + ((sec * 37 + o) % 255)]]

\* A mounted volume with sectors of 32 bytes and clusters of 2 sectors, its
\* FAT in sector 3 and its data region from sector 4, behind a CachedDevice
\* that holds no sector yet; a Dir on the root directory, and two Files at
\* offset 0: one on A.TXT (70 bytes), the other on A.TXT too or on a file of
\* 5 bytes in cluster 5.
HandleInit ==
    /\ bytes_per_sector = EntrySize
    /\ sectors_per_cluster = 2
    /\ fat_start_sector = 3 /\ sectors_per_fat = 1
    /\ data_start_sector = 4
    /\ root_dir_cluster = 2
    /\ fat = HandleFat
    /\ disk = HandleDisk
    /\ open_path = <<>> /\ parents = <<>> /\ lasts = <<>> /\ finds = 0
    /\ opened = DirRet("none", NoEntry, "")
    /\ dir_start = root_dir_cluster
    /\ chain_curr = 0 /\ chain_buf = <<>> /\ chain_total = 0
    /\ entries = <<>> /\ next = 0 /\ yielded = <<>>
    /\ file_size = 70 /\ start_cluster = 4 /\ absolute_offset = 0 /\ curr_cluster = 4
    /\ handles \in {<<FileOf(70, 4, 0, 4)>>, <<FileOf(5, 5, 0, 5)>>}
    /\ dev_sector_size = EntrySize
    /\ device = disk
    /\ partition = [start |-> 0, sector_size |-> EntrySize]
    /\ dev_reads = <<>> /\ dev_writes = <<>>
    /\ mounted = [kind |-> "Ok", err |-> [tag |-> "", mbr |-> FALSE, i |-> 0]]
    /\ cache = <<>>
    /\ sector_ret = [op |-> "none", sector |-> 0, kind |-> "none", n |-> 0, err |-> "",
                     bytes |-> <<>>]
    /\ written = {} /\ marked = {}

InitHandles ==
    /\ FatIdle /\ HandleInit /\ CallIdle /\ ClusterIdle /\ SharedIdle /\ AllocIdle
    /\ BuildIdle /\ WalkIdle /\ HistOff

HandleSeeks == {[mode |-> "Start", v |-> Small(k)] : k \in {0, 64}}

NextHandles ==
    \/ Turn
    \/ DropFile
    \/ \E len \in {30, 64} : ReadCall(len)
    \/ \E pos \in HandleSeeks : Seek(pos)
    \/ Entries
    \/ \E name \in {<<115, 117, 98>>, <<110, 111, 110, 101>>} : Find(name)
    \/ IterNext
    \/ ReadLoop
    \/ ChainLoop
    \/ FindLoop

\* Every sequence of calls on two Files and a Dir of one mount.
SpecHandles == InitHandles /\ [][NextHandles]_vars

(***************************************************************************)
(* os/kernel/src/allocator: util.rs, pool.rs, bin.rs                       *)
(***************************************************************************)
K == 16
\* max(align_of::<Node>(), size_of::<Node>()) where usize and pointers take
\* 8 bytes
MIN_BLOCK_SIZE == 16

Layout(size, align) == [size |-> size, align |-> align]

\* util.rs: align_down, for an align that is a power of two
align_down(addr, align) == (addr \div align) * align

\* An align_up that leaves every address as it is.
align_up_not(addr, align) == addr

\* util.rs: align_up
align_up(addr, align) ==
    IF addr = align_down(addr, align) THEN align_down(addr, align)
    ELSE align_down(addr, align) + align

\* usize::next_power_of_two, usize::ilog2 and core::cmp::max
RECURSIVE PowerFrom(_, _)
PowerFrom(p, n) == IF p >= n THEN p ELSE PowerFrom(2 * p, n)
next_power_of_two(n) == PowerFrom(1, n)
RECURSIVE ilog2(_)
ilog2(n) == IF n < 2 THEN 0 ELSE 1 + ilog2(n \div 2)
max(a, b) == IF a < b THEN b ELSE a

\* pool.rs: a Node of the free list, at the address addr
Node(addr, size) == [addr |-> addr, size |-> size]

\* pool::Allocator::new(start, end): the list behind the sentinel, for a
\* region that holds an aligned block (new panics otherwise)
pool_new(start, end) ==
    LET aligned_start == align_up(start, MIN_BLOCK_SIZE)
        aligned_end   == align_down(end, MIN_BLOCK_SIZE)
    IN  <<Node(aligned_start, aligned_end - aligned_start)>>

PoolRet(kind, addr, nodes) == [kind |-> kind, addr |-> addr, nodes |-> nodes]

\* pool::Allocator::alloc, lines 53-88: the loop with curr at the i-th node
RECURSIVE PoolScan(_, _, _)
PoolScan(nodes, i, layout) ==
    IF i > Len(nodes) THEN PoolRet("Err", 0, nodes)
    ELSE LET curr_start    == nodes[i].addr
             curr_end      == curr_start + nodes[i].size
             aligned_start == align_up(curr_start, layout.align)
             aligned_end   == align_up(aligned_start + layout.size, MIN_BLOCK_SIZE)
             front == IF aligned_start > curr_start
                        THEN <<Node(curr_start, aligned_start - curr_start)>> ELSE <<>>
             back  == IF curr_end = aligned_end
                        THEN <<>> ELSE <<Node(aligned_end, curr_end - aligned_end)>>
         IN  IF curr_end >= aligned_end
               THEN IF aligned_start > curr_start
                         /\ (aligned_start - curr_start) % MIN_BLOCK_SIZE # 0
                      THEN PoolRet("Panic", 0, nodes)
                      ELSE PoolRet("Ok", aligned_start,
                                   SubSeq(nodes, 1, i - 1) \o front \o back
                                     \o SubSeq(nodes, i + 1, Len(nodes)))
               ELSE PoolScan(nodes, i + 1, layout)

\* pool::Allocator::alloc(layout)
pool_alloc(nodes, layout) == PoolScan(nodes, 1, layout)

\* pool::Allocator::merge_adjacent_regions, with curr at the i-th node
RECURSIVE MergeFrom(_, _)
MergeFrom(nodes, i) ==
    IF i >= Len(nodes) THEN nodes
    ELSE IF nodes[i].addr + nodes[i].size = nodes[i + 1].addr
      THEN MergeFrom(SubSeq(nodes, 1, i - 1)
                       \o <<Node(nodes[i].addr, nodes[i].size + nodes[i + 1].size)>>
                       \o SubSeq(nodes, i + 2, Len(nodes)), i)
      ELSE MergeFrom(nodes, i + 1)
merge_adjacent_regions(nodes) == MergeFrom(nodes, 1)

\* pool::Allocator::dealloc, lines 102-105: the nodes the loop passes
RECURSIVE Passed(_, _, _)
Passed(nodes, i, start) ==
    IF i <= Len(nodes) /\ start > nodes[i].addr THEN Passed(nodes, i + 1, start)
    ELSE i - 1

\* pool::Allocator::dealloc(ptr, layout)
pool_dealloc(nodes, ptr, layout) ==
    LET actual_end == align_up(ptr + layout.size, MIN_BLOCK_SIZE)
        k          == Passed(nodes, 1, ptr)
    IN  merge_adjacent_regions(SubSeq(nodes, 1, k) \o <<Node(ptr, actual_end - ptr)>>
                                 \o SubSeq(nodes, k + 1, Len(nodes)))

\* bin::Allocator::bin_block_size
bin_block_size(bin_index) == Pow2(bin_index + 3)

\* bin::Allocator::first_bin_fit; NoBin stands for None
NoBin == K
first_bin_fit(block_size) ==
    LET exp == ilog2(block_size)
    IN  IF exp <= 3 THEN 0 ELSE IF exp <= K THEN exp - 3 ELSE NoBin

\* bin::Allocator::block_size_fit
block_size_fit(layout) == max(next_power_of_two(layout.size), layout.align)

SplitRet(kind, addr, bs) == [kind |-> kind, addr |-> addr, bins |-> bs]

\* A split that pushes the block it hands out onto every bin below.
split_bin_whole(bs, big_bin, small_bin) ==
    IF bs[big_bin] = <<>> THEN SplitRet("None", 0, bs)
    ELSE SplitRet("Some", Head(bs[big_bin]),
                  [i \in DOMAIN bs |->
                      IF i = big_bin THEN Tail(bs[i])
                      ELSE IF i >= small_bin /\ i < big_bin
                        THEN <<Head(bs[big_bin])>> \o bs[i]
                      ELSE bs[i]])

\* bin::Allocator::split_bin(big_bin, small_bin) on the bins bs; LinkedList
\* pops and pushes at its head
split_bin(bs, big_bin, small_bin) ==
    IF bs[big_bin] = <<>> THEN SplitRet("None", 0, bs)
    ELSE LET addr == Head(bs[big_bin]) IN
         SplitRet("Some", addr,
                  [i \in DOMAIN bs |->
                      IF i = big_bin THEN Tail(bs[i])
                      ELSE IF i >= small_bin /\ i < big_bin
                        THEN <<addr + bin_block_size(i)>> \o bs[i]
                      ELSE bs[i]])

\* bin::Allocator::alloc, lines 59-64: the loop from bin i on
RECURSIVE SplitLoop(_, _, _)
SplitLoop(bs, i, first_bin_idx) ==
    IF i > K - 3 THEN SplitRet("None", 0, bs)
    ELSE IF split_bin(bs, i, first_bin_idx).kind = "Some"
      THEN split_bin(bs, i, first_bin_idx)
    ELSE SplitLoop(bs, i + 1, first_bin_idx)

AllocRet(kind, addr, bs, nodes, from) ==
    [kind |-> kind, addr |-> addr, bins |-> bs, nodes |-> nodes, from |-> from]
FromPool(r, bs, from) == AllocRet(r.kind, r.addr, bs, r.nodes, from)
FromSplit(r, nodes, block_size) ==
    IF r.kind = "Some" THEN AllocRet("Ok", r.addr, r.bins, nodes, "split")
    ELSE FromPool(pool_alloc(nodes, Layout(block_size, block_size)), r.bins, "pool")

\* bin::Allocator::alloc(layout) on the bins bs and the pool's nodes
bin_alloc(bs, nodes, layout) ==
    LET block_size    == block_size_fit(layout)
        first_bin_idx == first_bin_fit(block_size)
    IN  IF first_bin_idx = NoBin THEN FromPool(pool_alloc(nodes, layout), bs, "pool")
        ELSE IF bs[first_bin_idx] # <<>>
          THEN AllocRet("Ok", Head(bs[first_bin_idx]),
                        [bs EXCEPT ![first_bin_idx] = Tail(@)], nodes, "bin")
        ELSE FromSplit(SplitLoop(bs, first_bin_idx + 1, first_bin_idx), nodes, block_size)

AllocCall(op, kind, addr, layout, from) ==
    [op |-> op, kind |-> kind, addr |-> addr, size |-> layout.size,
     align |-> layout.align, from |-> from]

AllocFrame ==
    UNCHANGED <<fatVars, vfatVars, fileVars, callVars, histVars, dirVars, openVars,
                mountVars, cacheVars, clusterVars, sharedVars, buildVars, handleVars, walkVars,
                region>>

MaxLive == 3          \* at most MaxLive allocations are live at a time
MaxBlocks == 4        \* at most MaxBlocks blocks are live or in the bins

\* The blocks handed out so far: the live ones and the ones in the bins.
RECURSIVE BinBlocks(_, _)
BinBlocks(bs, i) == IF i > K - 3 THEN 0 ELSE Len(bs[i]) + BinBlocks(bs, i + 1)
Blocks == Cardinality(allocated) + BinBlocks(bins, 0)

\* bin::Allocator::alloc(layout)
Alloc(layout) ==
    /\ region.end # 0 /\ alloc_ret.kind # "Panic"
    /\ Cardinality(allocated) < MaxLive /\ Blocks < MaxBlocks
    /\ \E r \in {bin_alloc(bins, pool, layout)} :
         /\ alloc_ret' = AllocCall("alloc", r.kind, r.addr, layout, r.from)
         /\ bins' = r.bins
         /\ pool' = r.nodes
         /\ allocated' = IF r.kind = "Ok"
                           THEN allocated \cup {[addr |-> r.addr, layout |-> layout]}
                           ELSE allocated
    /\ AllocFrame

\* bin::Allocator::dealloc(ptr, layout) for a live allocation a
Dealloc(a) ==
    /\ region.end # 0 /\ alloc_ret.kind # "Panic"
    /\ a \in allocated
    /\ alloc_ret' = AllocCall("dealloc", "Done", a.addr, a.layout, "")
    /\ allocated' = allocated \ {a}
    /\ IF first_bin_fit(block_size_fit(a.layout)) # NoBin
         THEN /\ bins' = [bins EXCEPT ![first_bin_fit(block_size_fit(a.layout))] =
                                          <<a.addr>> \o @]
              /\ UNCHANGED pool
         ELSE /\ pool' = pool_dealloc(pool, a.addr, a.layout)
              /\ UNCHANGED bins
    /\ AllocFrame

\* The regions handed to Allocator::new: 64 bytes from an aligned address,
\* 83 bytes and 48 bytes from addresses that are not aligned, and a region
\* that holds a block too large for every bin.
Regions ==
    {[start |-> 16, end |-> 80], [start |-> 24, end |-> 107], [start |-> 8, end |-> 56],
     [start |-> 8, end |-> 8 + Pow2(K + 1) + 40]}

\* The layouts asked for: block sizes 1, 8, 16 and 32, an alignment above
\* the size, and a size beyond the largest bin.
Layouts ==
    {Layout(1, 1), Layout(8, 8), Layout(9, 8), Layout(1, 32), Layout(24, 16),
     Layout(Pow2(K) + 8, 8)}

\* bin::Allocator::new(start, end)
AllocInit ==
    /\ region \in Regions
    /\ bins = [i \in 0..(K - 3) |-> <<>>]
    /\ pool = pool_new(region.start, region.end)
    /\ allocated = {}
    /\ alloc_ret = NoAllocCall

InitAlloc ==
    /\ FatIdle /\ MountIdle /\ FileIdle /\ CallIdle /\ ClusterIdle /\ SharedIdle
    /\ BuildIdle /\ HandleIdle /\ WalkIdle /\ HistOff /\ DirIdle /\ OpenIdle /\ DeviceIdle /\ AllocInit

NextAlloc ==
    \/ \E layout \in Layouts : Alloc(layout)
    \/ \E a \in allocated : Dealloc(a)

\* Every sequence of alloc and dealloc on one bin allocator.
SpecAlloc == InitAlloc /\ [][NextAlloc]_vars

(***************************************************************************)
(* FatEntry::status on its own                                             *)
(***************************************************************************)
\* FatEntry(raw).status()
Decode ==
    /\ decoded = NotDecoded
    /\ decoded' = status(raw)
    /\ UNCHANGED <<raw, vfatVars, fileVars, callVars, histVars, dirVars, openVars,
                   mountVars, cacheVars, allocVars, buildVars, handleVars, walkVars, clusterVars, sharedVars>>

InitFat ==
    /\ raw \in RawSamples /\ decoded = NotDecoded
    /\ MountIdle /\ FileIdle /\ CallIdle /\ ClusterIdle /\ SharedIdle /\ AllocIdle /\ BuildIdle /\ HandleIdle /\ WalkIdle /\ HistOff /\ DirIdle /\ OpenIdle /\ DeviceIdle

SpecFat == InitFat /\ [][Decode]_vars

(***************************************************************************)
(* What a chain is, read off the FAT and the disk directly                 *)
(***************************************************************************)
StatusOf(c) == status(fat[c])

\* The cluster reached from c by k Data links, 0 when a link is missing.
RECURSIVE Follow(_, _)
Follow(c, k) ==
    IF k = 0 THEN c
    ELSE IF StatusOf(c).tag = "Data" THEN Follow(StatusOf(c).val, k - 1)
    ELSE 0

\* The number of clusters of the chain from start_cluster when it ends with
\* Eoc after at most MaxCluster clusters, else 0.
ChainLen ==
    IF \E k \in 0..MaxCluster - 1 :
          Follow(start_cluster, k) # 0 /\ StatusOf(Follow(start_cluster, k)).tag = "Eoc"
      THEN 1 + CHOOSE k \in 0..MaxCluster - 1 :
                 Follow(start_cluster, k) # 0
                 /\ StatusOf(Follow(start_cluster, k)).tag = "Eoc"
      ELSE 0

\* The bytes of cluster c: its sectors in ascending order.
RECURSIVE SectorsFrom(_, _)
SectorsFrom(s, count) ==
    IF count = 0 THEN <<>> ELSE disk[s] \o SectorsFrom(s + 1, count - 1)
ClusterBytes(c) ==
    SectorsFrom(data_start_sector + sectors_per_cluster * (c - 2), sectors_per_cluster)

\* The bytes of the first j clusters of the chain, in chain order.
RECURSIVE ChainBytes(_)
ChainBytes(j) ==
    IF j = 0 THEN <<>>
    ELSE ChainBytes(j - 1) \o ClusterBytes(Follow(start_cluster, j - 1))

ClustersNeeded == (file_size + cluster_size - 1) \div cluster_size

\* Exactly ceil(N / cluster_size) clusters, the last one Eoc (an empty file
\* needs no cluster: whatever start_cluster holds, none is read).
WellFormed == file_size = 0 \/ ChainLen = ClustersNeeded

\* Fewer clusters than file_size requires.
ShortChain == ChainLen > 0 /\ ChainLen * cluster_size < file_size

\* The first file_size bytes of the chain's clusters in chain order.
FileBytes == SubSeq(ChainBytes(ClustersNeeded), 1, file_size)

Returned == pc = "idle" /\ call.op = "read"
Sought   == pc = "idle" /\ call.op = "seek"

(***************************************************************************)
(* Claims                                                                  *)
(***************************************************************************)

\* C1: FatEntry(v).status() depends only on m = v & 0x0FFFFFFF and is Free
\* for m = 0, Reserved for m = 1 and for m in [0x0FFFFFF0, 0x0FFFFFF6],
\* Data(m) for m in [0x2, 0x0FFFFFEF], Bad for m = 0x0FFFFFF7 and Eoc(m) for
\* m in [0x0FFFFFF8, 0x0FFFFFFF]; the value carried has the high 4 bits
\* cleared and no value is left undecoded.
C1_StatusDecoding ==
    decoded # NotDecoded =>
        LET m == raw.lo IN
        /\ m = 0 => decoded = Free
        /\ (m = 1 \/ (m >= 268435440 /\ m <= 268435446)) => decoded = Reserved
        /\ (m >= 2 /\ m <= 268435439) => decoded = Data(m)
        /\ m = 268435447 => decoded = Bad
        /\ (m >= 268435448 /\ m <= 268435455) => decoded = Eoc(m)
        /\ decoded.tag \in {"Free", "Reserved", "Data", "Bad", "Eoc"}

\* FatEntry(0x200001E2) decoded to Data(0x1E2), as in test_status.
C1_Witness == raw = U32(2, 482) /\ decoded = Data(482)

\* C2: for a well-formed chain, the bytes handed out by any sequence of reads
\* from offset 0 are the file's bytes from 0 to the current offset; no read
\* fails; a read into a non-empty buffer returns 0 only at file_size, so the
\* concatenation up to that read is the first N bytes of the chain's
\* clusters; and one read with a buffer of N bytes returns those N bytes.
C2_ChunkingInvariance ==
    (pc = "idle" /\ WellFormed /\ origin = "open") =>
        /\ call.op = "read" => ret.kind = "Ok"
        /\ stream = SubSeq(FileBytes, 1, absolute_offset)
        /\ (call.op = "read" /\ call.len > 0 /\ ret.n = 0) =>
               (absolute_offset = file_size /\ stream = FileBytes)
        /\ (call.op = "read" /\ call.len = file_size /\ Len(stream) = ret.n) =>
               stream = FileBytes

\* A file of two clusters has been read to its end from offset 0, the last
\* byte by a read of a single byte.
C2_Witness ==
    /\ pc = "idle" /\ WellFormed /\ origin = "open"
    /\ file_size > cluster_size
    /\ call.op = "read" /\ call.len = 1 /\ ret.n = 1
    /\ stream = FileBytes

\* C3: for a well-formed chain and 0 <= k <= N, seek(Start(k)) succeeds from
\* any state of the handle, and the reads that follow hand out the file's
\* bytes from k on, up to file_size: what reading N bytes from offset 0 gives
\* with the first k bytes discarded.
C3_SeekReadConsistency ==
    (pc = "idle" /\ WellFormed) =>
        /\ (call.op = "seek" /\ call.mode = "Start" /\ ~WideGt(call.v, file_size)) =>
               /\ ret.kind = "Ok" /\ ret.n = call.v.d
               /\ absolute_offset = call.v.d
               /\ origin = "Start" /\ streamStart = call.v.d /\ stream = <<>>
        /\ origin = "Start" =>
               /\ call.op = "read" => ret.kind = "Ok"
               /\ stream = SubSeq(FileBytes, streamStart + 1, absolute_offset)
               /\ (call.op = "read" /\ call.len > 0 /\ ret.n = 0) =>
                      /\ absolute_offset = file_size
                      /\ stream = SubSeq(FileBytes, streamStart + 1, file_size)

\* After a seek to the cluster boundary inside a file of two clusters, the
\* file has been read to its end.
C3_Witness ==
    /\ pc = "idle" /\ WellFormed /\ origin = "Start"
    /\ file_size > cluster_size /\ streamStart = cluster_size
    /\ call.op = "read" /\ call.len > 0 /\ ret.n = 0
    /\ Len(stream) = file_size - cluster_size

\* The candidate offset of the seek recorded in `call` is negative or greater
\* than file_size.
OutOfRange ==
    CASE call.mode = "Start" -> WideGt(call.v, file_size)
      [] call.mode = "End" ->
           call.v.a # "zero" \/ file_size + call.v.d < 0 \/ file_size + call.v.d > file_size
      [] call.mode = "Current" ->
           call.v.a # "zero" \/ call.off0 + call.v.d < 0
           \/ call.off0 + call.v.d > file_size
      [] OTHER -> FALSE

\* The candidate offset, when it is in range.
Candidate ==
    CASE call.mode = "Start" -> call.v.d
      [] call.mode = "End" -> file_size + call.v.d
      [] call.mode = "Current" -> call.off0 + call.v.d
      [] OTHER -> 0

\* C4: a seek fails with InvalidInput exactly when its candidate offset (s,
\* file_size + e, or absolute_offset + c) is negative or greater than
\* file_size, and then leaves absolute_offset and curr_cluster unchanged;
\* seeking to exactly file_size succeeds and returns file_size, and the next
\* read returns 0 bytes; a successful seek returns the new absolute_offset.
C4_SeekRangeCheck ==
    /\ (pc \in {"idle", "panicked"} /\ call.op = "seek") =>
        /\ (ret.kind = "Err" /\ ret.err = "InvalidInput") <=> OutOfRange
        /\ OutOfRange =>
               (absolute_offset = call.off0 /\ curr_cluster = call.cl0)
        /\ (~OutOfRange /\ Candidate = file_size) =>
               (ret.kind = "Ok" /\ ret.n = file_size)
        /\ ret.kind = "Ok" => (ret.n = Candidate /\ absolute_offset = Candidate)
    /\ (Returned /\ call.off0 = file_size) => (ret.kind = "Ok" /\ ret.n = 0)

\* C5: absolute_offset <= file_size in every state; a read that starts at
\* offset a returns at most file_size - a bytes; a read at absolute_offset =
\* file_size returns Ok(0) and changes neither absolute_offset nor
\* curr_cluster; and for a 10-byte file whose only cluster is Eoc, a read
\* with an 11-byte buffer returns exactly 10 bytes and no error.
C5_ReadNeverPassesEof ==
    /\ absolute_offset <= file_size
    /\ (Returned /\ ret.kind = "Ok") =>
           (ret.n <= file_size - call.off0 /\ ret.n <= call.len)
    /\ (Returned /\ call.off0 = file_size) =>
           /\ ret.kind = "Ok" /\ ret.n = 0
           /\ absolute_offset = call.off0 /\ curr_cluster = call.cl0
    /\ (Returned /\ file_size = 10 /\ StatusOf(start_cluster).tag = "Eoc"
          /\ cluster_size >= 10 /\ call.off0 = 0 /\ call.len = 11) =>
           (ret.kind = "Ok" /\ ret.n = 10 /\ ret.bytes = FileBytes)

\* The 10-byte file has been read with an 11-byte buffer: the cluster holds
\* 12 bytes and 10 were returned.
C5_Witness ==
    /\ Returned /\ file_size = 10 /\ cluster_size = 12
    /\ call.off0 = 0 /\ call.len = 11 /\ ret.kind = "Ok" /\ ret.n = 10

\* C6: for a chain of L clusters with L * cluster_size < file_size, no
\* successful read returns bytes for an offset at or beyond L * cluster_size,
\* and a read asked to deliver data at such an offset fails with
\* UnexpectedEof, also when the previous read ended exactly on the boundary
\* L * cluster_size with its buffer full.
C6_ShortChainReported ==
    (Returned /\ ShortChain) =>
        /\ ret.kind = "Ok" => call.off0 + ret.n <= ChainLen * cluster_size
        /\ (call.off0 < file_size /\ call.off0 + call.len > ChainLen * cluster_size) =>
               (ret.kind = "Err" /\ ret.err = "UnexpectedEof")

\* The first cluster of the chain that is not a Data link is the j-th and its
\* status is Free, Reserved or Bad.
BadAt(j) ==
    /\ Follow(start_cluster, j) # 0
    /\ StatusOf(Follow(start_cluster, j)).tag \in {"Free", "Reserved", "Bad"}

\* C7: a File::read or File::seek that, walking the chain, reaches a cluster
\* whose FAT entry decodes to Free, Reserved or Bad fails with InvalidData,
\* the read as the seek.
C7_BadStatusIsInvalidData ==
    /\ (Returned /\ ret.kind = "Err"
          /\ StatusOf(curr_cluster).tag \in {"Free", "Reserved", "Bad"}) =>
           ret.err = "InvalidData"
    /\ (Sought /\ ~OutOfRange
          /\ \E j \in 0..MaxCluster : BadAt(j) /\ (j + 1) * cluster_size <= Candidate) =>
           (ret.kind = "Err" /\ ret.err = "InvalidData")

\* curr_cluster is the cluster that contains absolute_offset, or, at
\* absolute_offset = file_size on the boundary at the end of the chain, the
\* chain's last cluster.
CurrContainsOffset ==
    LET k == absolute_offset \div cluster_size IN
    \/ (Follow(start_cluster, k) # 0 /\ curr_cluster = Follow(start_cluster, k))
    \/ /\ absolute_offset = file_size
       /\ k >= 1 /\ absolute_offset % cluster_size = 0
       /\ Follow(start_cluster, k - 1) # 0
       /\ StatusOf(Follow(start_cluster, k - 1)).tag = "Eoc"
       /\ curr_cluster = Follow(start_cluster, k - 1)

\* C8: after any sequence of read and seek calls, successful or failed,
\* curr_cluster is the cluster reached from start_cluster by
\* floor(absolute_offset / cluster_size) Data links, except at
\* absolute_offset = file_size on the cluster boundary at the end of the
\* chain, where it is the chain's last cluster.
C8_StreamInvariant ==
    pc \in {"idle", "panicked"} => CurrContainsOffset

\* The first record at or after record n (counted from 0) that is not
\* marked deleted.
RECURSIVE FirstLive(_)
FirstLive(n) ==
    IF n < Len(entries) /\ id(entries[n + 1]) = 229 THEN FirstLive(n + 1) ELSE n

\* Records i .. i+k-1 are LFN fragments with positions k, k-1, ..., 1, the
\* first of them carrying bit 6, each holding decodable text, and record i+k
\* is a regular entry with a name.
LfnRun(i, k) ==
    /\ k >= 1 /\ i + k < Len(entries)
    /\ \A j \in 0..(k - 1) :
          LET e == entries[i + j + 1] IN
          /\ id(e) # 229 /\ lfn(attributes(e)) /\ position(e) = k - j
          /\ (j = 0 => last_logical(e))
          /\ VFatLfnDirEntry_name(e).kind = "Ok"
    /\ LET r == entries[i + k + 1] IN
       /\ id(r) \notin {0, 229} /\ ~lfn(attributes(r))
       /\ VFatRegularDirEntry_name(r).kind = "Ok"

\* The text of the fragments of the run at i, from position p upwards.
RECURSIVE RunText(_, _, _)
RunText(i, k, p) ==
    IF p > k THEN <<>>
    ELSE VFatLfnDirEntry_name(entries[i + k - p + 1]).s \o RunText(i, k, p + 1)

\* C9: a run of k >= 1 LFN fragments stored with positions k, ..., 1, the
\* first carrying bit 6, immediately followed by a regular entry, makes
\* next() yield exactly one Entry for those k+1 records; that Entry's name is
\* the concatenation of the fragments' text, position 1 first; iteration
\* resumes at the record after the regular entry; whether the regular entry
\* is a file or a directory.
C9_LongNameReconstruction ==
    (pc \in {"idle", "panicked"} /\ call.op = "next") =>
        LET i == FirstLive(call.next0) IN
        \A k \in 1..MaxRecords :
            LfnRun(i, k) =>
                /\ ret.kind = "Some"
                /\ Len(yielded) = call.yielded0 + 1
                /\ Entry_name(ret.entry) = StrOk(RunText(i, k, 1))
                /\ next = i + k + 1

\* From record i on the directory holds only deleted records, regular
\* entries with a name and LFN runs, up to its end.
RECURSIVE WellFormedFrom(_)
WellFormedFrom(i) ==
    LET n == FirstLive(i) IN
    IF n >= Len(entries) \/ id(entries[n + 1]) = 0 THEN TRUE
    ELSE IF lfn(attributes(entries[n + 1]))
      THEN LET k == position(entries[n + 1]) IN
           LfnRun(n, k) /\ WellFormedFrom(n + k + 1)
    ELSE VFatRegularDirEntry_name(entries[n + 1]).kind = "Ok" /\ WellFormedFrom(n + 1)

\* The entries of a well-formed directory from record i on, in order: the
\* effective name (long name if present, else short name) and whether the
\* entry is a directory, with its first cluster.
RECURSIVE Listing(_, _)
Listing(i, acc) ==
    LET n == FirstLive(i) IN
    IF n >= Len(entries) \/ id(entries[n + 1]) = 0 THEN acc
    ELSE LET k == IF lfn(attributes(entries[n + 1])) THEN position(entries[n + 1]) ELSE 0
             r == entries[n + k + 1]
         IN  Listing(n + k + 1,
                     Append(acc,
                            [name |-> IF k > 0 THEN RunText(n, k, 1)
                                      ELSE VFatRegularDirEntry_name(r).s,
                             dir |-> directory(attributes(r)),
                             cluster |-> first_cluster(r)]))

\* C10: Dir::find(name) fails with InvalidInput if name is not valid UTF-8;
\* otherwise, on any directory of file and directory entries, it returns the
\* first entry in iteration order whose effective name equals name ignoring
\* ASCII case, and fails with NotFound when there is none.
C10_Find ==
    (pc \in {"idle", "panicked"} /\ call.op = "find") =>
        IF to_str(call.name).kind = "Err"
          THEN ret.kind = "Err" /\ ret.err = "InvalidInput"
          ELSE (entries # <<>> /\ WellFormedFrom(0)) =>
                 LET l == Listing(0, <<>>)
                     m == {j \in 1..Len(l) :
                              eq_ignore_ascii_case(l[j].name, to_str(call.name).s)}
                 IN  IF m = {} THEN ret.kind = "Err" /\ ret.err = "NotFound"
                     ELSE LET j == CHOOSE x \in m : \A y \in m : x <= y IN
                          /\ ret.kind = "Ok"
                          /\ ret.entry.kind = (IF l[j].dir THEN "Dir" ELSE "File")
                          /\ l[j].dir =>
                                /\ Entry_name(ret.entry) = StrOk(l[j].name)
                                /\ ret.entry.start_cluster = l[j].cluster

C12_RejectsNonAbsolute ==
    (opened.kind # "none" /\ (open_path = <<>> \/ open_path[1] # 47)) =>
        /\ opened = DirRet("Err", NoEntry, "InvalidInput")
        /\ finds = 0
        /\ call.op = "none"
        /\ chain_total = 0 /\ chain_buf = <<>> /\ entries = <<>>

\* open has returned for a relative path that names an existing directory
\* below the root.
C12_Witness ==
    /\ opened.kind = "Err" /\ pc = "idle"
    /\ open_path = <<83, 85, 66, 47, 105, 110>>
    /\ root_dir_cluster = 2
    /\ disk = TreeDisk(Tree(<<ESub, EIn>>, <<EIn>>, <<ESub>>))

\* The tree the volume holds, and whether every directory of it can be read.
TheTree  == CHOOSE t \in Trees : TreeDisk(t) = disk
Readable == fat = DirFat(1)

\* Resolution as the specification words it, on the tree: the root, and
\* the first entry of the directory in cluster c whose name is name ignoring
\* ASCII case.
RefOk(e)   == [kind |-> "Ok", e |-> e, err |-> ""]
RefErr(er) == [kind |-> "Err", e |-> [dir |-> FALSE, cluster |-> 0, name |-> <<>>], err |-> er]
RefRoot    == [dir |-> TRUE, cluster |-> root_dir_cluster, name |-> <<>>]
RefFind(c, name) ==
    LET es == TheTree[c]
        m  == {j \in 1..Len(es) : eq_ignore_ascii_case(es[j].name, name)}
    IN  IF m = {} THEN RefErr("NotFound")
        ELSE RefOk(LET e == es[CHOOSE j \in m : \A k \in m : j <= k]
                   IN  [dir |-> e.dir, cluster |-> e.cluster, name |-> e.name])

\* The components walked left to right from the stack st: '.' does nothing,
\* '..' pops unless only the root is left, a name is looked up in the
\* directory on top and the entry found is pushed.
RECURSIVE RefWalk(_, _)
RefPush(st, ls, f) == IF f.kind = "Err" THEN f ELSE RefWalk(Append(st, f.e), Tail(ls))
RefWalk(st, ls) ==
    IF ls = <<>> THEN RefOk(st[Len(st)])
    ELSE IF Head(ls) = CurDir THEN RefWalk(st, Tail(ls))
    ELSE IF Head(ls) = ParentDir
      THEN IF Len(st) = 1 THEN RefErr("InvalidInput")
           ELSE RefWalk(SubSeq(st, 1, Len(st) - 1), Tail(ls))
    ELSE IF ~st[Len(st)].dir THEN RefErr("InvalidInput")
    ELSE RefPush(st, ls, RefFind(st[Len(st)].cluster, Head(ls).name))

\* open handed back what resolution r comes to.
Same(o, r) ==
    IF r.kind = "Err" THEN o.kind = "Err" /\ o.err = r.err
    ELSE /\ o.kind = "Ok"
         /\ o.entry.kind = (IF r.e.dir THEN "Dir" ELSE "File")
         /\ r.e.dir => /\ o.entry.start_cluster = r.e.cluster
                       /\ r.e.name # <<>> => Entry_name(o.entry) = StrOk(r.e.name)

\* A call of open on an absolute path is over: it returned or it panicked.
OpenDone ==
    /\ opened.kind # "none"
    /\ open_path # <<>> /\ open_path[1] = 47
    /\ \/ pc = "idle" /\ opened.kind # "Pending"
       \/ pc = "panicked"

\* C13: while open resolves a path the stack of resolved entries is never
\* empty and its bottom element is the root directory; '..' met while the
\* stack holds only the root makes open fail with InvalidInput; '..' met
\* elsewhere discards the entry resolved last, so that open(P/x/..) is what
\* open(P) is whenever P/x resolves, x being a directory or a file; and
\* open(P/.) is what open(P) is.
C13_Navigation ==
    /\ opened.kind = "Pending" =>
          /\ parents # <<>>
          /\ parents[1].kind = "Dir" /\ parents[1].start_cluster = root_dir_cluster
    /\ (OpenDone /\ Readable) =>
          LET comps == Tail(components(open_path))
              n     == Len(comps)
          IN
          /\ (n >= 1 /\ comps[1] = ParentDir) =>
                opened.kind = "Err" /\ opened.err = "InvalidInput" /\ finds = 0
          /\ (n >= 2 /\ comps[n] = ParentDir /\ comps[n - 1].kind = "Normal"
                /\ RefWalk(<<RefRoot>>, SubSeq(comps, 1, n - 1)).kind = "Ok") =>
                Same(opened, RefWalk(<<RefRoot>>, SubSeq(comps, 1, n - 2)))
          /\ (Len(open_path) >= 2 /\ open_path[Len(open_path)] = 46
                /\ open_path[Len(open_path) - 1] = 47
                /\ RefWalk(<<RefRoot>>, comps).kind = "Ok") =>
                Same(opened, RefWalk(<<RefRoot>>, comps))

\* C14: for an absolute path with normal components c1..cn open returns the
\* entry that find(c1) in the root, then find(c2) in that entry, and so on,
\* come to, the root directory of the recorded root cluster for "/"; it
\* fails with InvalidInput when the entry at the current position is a file
\* and a component is left, and with the error of a find that fails,
\* NotFound for a name that does not exist.
C14_Resolution ==
    /\ (OpenDone /\ Readable
          /\ \A i \in 1..Len(Tail(components(open_path))) :
                Tail(components(open_path))[i].kind = "Normal") =>
          Same(opened, RefWalk(<<RefRoot>>, Tail(components(open_path))))
    /\ (pc = "idle" /\ opened.kind \notin {"none", "Pending"}
          /\ call.op = "find" /\ ret.kind = "Err") => opened = ret

\* What the device holds, read off its bytes: the signature of a 512-byte
\* record, the fields of slot i of the partition table in physical sector 0
\* and the fields of the BPB in physical sector n.
LittleEndian(bytes, first, n) ==
    bytes[first + 1] + (IF n >= 2 THEN 256 * bytes[first + 2] ELSE 0)
      + (IF n >= 4 THEN 65536 * bytes[first + 3] + 16777216 * bytes[first + 4] ELSE 0)
SignatureOk(bytes)  == bytes[511] = 85 /\ bytes[512] = 170
SlotIndicator(i)    == LittleEndian(device[0], 446 + 16 * i, 1)
SlotType(i)         == LittleEndian(device[0], 446 + 16 * i + 4, 1)
SlotStart(i)        == LittleEndian(device[0], 446 + 16 * i + 8, 4)
SlotSectors(i)      == LittleEndian(device[0], 446 + 16 * i + 12, 4)
BadSlots            == {i \in 0..3 : SlotIndicator(i) \notin {0, 128}}
FatSlots            == {i \in 0..3 : SlotType(i) \in {11, 12}}
Lowest(S)           == CHOOSE i \in S : \A j \in S : i <= j
MbrValid            == dev_sector_size >= 512 /\ SignatureOk(device[0]) /\ BadSlots = {}
BpbFound ==
    MbrValid /\ FatSlots # {} /\ SlotStart(Lowest(FatSlots)) \in DOMAIN device
BpbBytes == device[SlotStart(Lowest(FatSlots))]
Mounted  == mounted.kind # "none"

\* C15: parsing the MBR in physical sector 0 and parsing the BPB in the
\* partition's first sector each fail with BadSignature unless bytes 510
\* and 511 of the record are 0x55 and 0xAA; an MBR with a bad signature
\* reports BadSignature also when a boot indicator is bad.
C15_SignatureValidation ==
    (Mounted /\ dev_sector_size >= 512) =>
        /\ ~SignatureOk(device[0]) <=>
              mounted = [kind |-> "Err", err |-> MountErr("BadSignature", TRUE, 0)]
        /\ BpbFound =>
              (~SignatureOk(BpbBytes) <=>
                  mounted = [kind |-> "Err", err |-> MountErr("BadSignature", FALSE, 0)])

\* An MBR with a bad signature and a bad boot indicator has been parsed.
C15_Witness ==
    /\ Mounted /\ dev_sector_size >= 512
    /\ ~SignatureOk(device[0]) /\ BadSlots # {}
    /\ mounted.err.tag = "BadSignature"

\* C16: for an MBR with a valid signature MasterBootRecord::from fails with
\* UnknownBootIndicator(i), i the smallest slot index whose boot indicator is
\* neither 0x00 nor 0x80, and succeeds exactly when all four indicators are
\* 0x00 or 0x80, whatever the partition types are.
C16_BootIndicators ==
    (Mounted /\ dev_sector_size >= 512 /\ SignatureOk(device[0])) =>
        IF BadSlots # {}
          THEN mounted = [kind |-> "Err",
                          err |-> MountErr("UnknownBootIndicator", TRUE, Lowest(BadSlots))]
          ELSE ~mounted.err.mbr

\* The only bad boot indicator is in the last slot, behind a FAT32 partition.
C16_Witness ==
    /\ Mounted /\ dev_sector_size >= 512 /\ SignatureOk(device[0])
    /\ BadSlots = {3} /\ 0 \in FatSlots
    /\ mounted.err.tag = "UnknownBootIndicator" /\ mounted.err.i = 3

\* C17: mounting uses the lowest slot whose type is 0x0B or 0x0C: the BPB is
\* read at its relative_sector, which becomes partition.start; it fails
\* with NotFound when no slot has such a type; and the partition is located
\* with one device read, of physical sector 0.
C17_PartitionSelection ==
    (Mounted /\ MbrValid) =>
        IF FatSlots = {}
          THEN /\ mounted = [kind |-> "Err", err |-> MountErr("NotFound", FALSE, 0)]
               /\ dev_reads = <<0>>
          ELSE /\ dev_reads = <<0, SlotStart(Lowest(FatSlots))>>
               /\ mounted.err.tag # "NotFound"
               /\ mounted.kind = "Ok" => partition.start = SlotStart(Lowest(FatSlots))

\* A volume is mounted from slot 1 while a later slot holds a FAT32
\* partition that starts elsewhere.
C17_Witness ==
    /\ mounted.kind = "Ok" /\ MbrValid
    /\ Lowest(FatSlots) = 1
    /\ \E j \in FatSlots : SlotStart(j) # SlotStart(1)
    /\ partition.start = SlotStart(1)

\* The two consistency conditions of a mount, on the bytes of the device.
SizeCondition ==
    SlotSectors(Lowest(FatSlots))
      = (LittleEndian(BpbBytes, 11, 2) * LittleEndian(BpbBytes, 32, 4)) \div dev_sector_size
FatCondition ==
    LittleEndian(BpbBytes, 32, 4)
      <= LittleEndian(BpbBytes, 14, 2)
           + LittleEndian(BpbBytes, 16, 1) * LittleEndian(BpbBytes, 36, 4)
           + LittleEndian(BpbBytes, 13, 1)
               * ((LittleEndian(BpbBytes, 36, 4) * LittleEndian(BpbBytes, 11, 2)) \div 4)

\* C18: VFat::from yields a mounted filesystem only if (a) the partition
\* entry's total_sectors is bytes_per_sector * total_sectors_32 /
\* device sector size and (b) total_sectors_32 <= reserved_sectors +
\* number_of_fats * sectors_per_fat + sectors_per_cluster * (sectors_per_fat
\* * bytes_per_sector / 4); when (a) or (b) fails, mounting aborts with a
\* panic and returns no Error value.
C18_MountConsistency ==
    /\ mounted.kind = "Ok" => SizeCondition /\ FatCondition
    /\ (Mounted /\ BpbFound /\ SignatureOk(BpbBytes) /\ ~(SizeCondition /\ FatCondition)) =>
          mounted.kind = "Panic"

\* Mounting was aborted on a volume whose sizes agree but whose
\* total_sectors_32 is beyond what its FAT covers.
C18_Witness ==
    /\ Mounted /\ BpbFound /\ SignatureOk(BpbBytes)
    /\ SizeCondition /\ ~FatCondition
    /\ mounted.kind = "Panic"

\* C19: for every filesystem VFat::from mounts, partition.sector_size, the
\* BPB's bytes_per_sector, is an integer multiple of the device's sector
\* size.
C19_SectorSizeMultiple ==
    mounted.kind = "Ok" =>
        /\ partition.sector_size = LittleEndian(BpbBytes, 11, 2)
        /\ partition.sector_size % dev_sector_size = 0

\* The bytes of the physical sectors first .. first + count - 1 in order.
RECURSIVE PhysicalBytes(_, _)
PhysicalBytes(first, count) ==
    IF count = 0 THEN <<>> ELSE device[first] \o PhysicalBytes(first + 1, count - 1)

\* C20: with f = partition.sector_size / device.sector_size, get(s) for
\* s < partition.start returns the bytes of physical sector s, and get(s) for
\* s >= partition.start returns the bytes of the f physical sectors
\* partition.start + (s - partition.start) * f and following, in ascending
\* order, where the cached copy of s has not been written to; it fails only
\* when one of these sectors cannot be read.
C20_SectorTranslation ==
    (sector_ret.op = "get" /\ sector_ret.sector \notin written) =>
        LET s     == sector_ret.sector
            f     == partition.sector_size \div dev_sector_size
            first == IF s < partition.start THEN s
                     ELSE partition.start + (s - partition.start) * f
            count == IF s < partition.start THEN 1 ELSE f
        IN  IF \A k \in 0..(count - 1) : first + k \in DOMAIN device
              THEN /\ sector_ret.kind = "Ok"
                   /\ sector_ret.bytes = PhysicalBytes(first, count)
              ELSE sector_ret.kind = "Err"

\* get has returned a sector behind the first one of a partition that does
\* not start at sector 0 and whose sectors are made of several physical ones.
C20_Witness ==
    /\ sector_ret.op = "get" /\ sector_ret.kind = "Ok"
    /\ sector_ret.sector \notin written
    /\ partition.start >= 1
    /\ sector_ret.sector > partition.start
    /\ partition.sector_size \div dev_sector_size >= 2
    /\ dev_reads # <<>>

(***************************************************************************)
(* C21                                                                     *)
(***************************************************************************)
\* C21: a cache entry is dirty exactly when get_mut or write_sector has
\* returned it: those leave it dirty, and an entry that only get and
\* read_sector have returned is not dirty.
C21_DirtyBookkeeping ==
    \A s \in DOMAIN cache : cache[s].dirty <=> s \in marked

(***************************************************************************)
(* C22 - C24                                                               *)
(***************************************************************************)
ClusterRead == pc # "read_chain" /\ vcall.op = "read_cluster"
ChainRead   == pc # "read_chain" /\ vcall.op = "read_chain"

\* C22: read_cluster(cluster, offset, buf) fails with InvalidInput whenever
\* the FAT entry of cluster decodes to Free, Reserved or Bad; no byte of buf
\* is written then and no sector of the data region is asked of the cache.
C22_RejectsNonDataCluster ==
    (ClusterRead /\ StatusOf(vcall.cluster).tag \in {"Free", "Reserved", "Bad"}) =>
        /\ vret.kind = "Err" /\ vret.err = "InvalidInput"
        /\ vret.buf = vcall.buf
        /\ \A i \in DOMAIN gets : gets[i] < data_start_sector

\* read_cluster has refused a Reserved cluster handed a buffer with bytes
\* in it.
C22_Witness ==
    /\ ClusterRead /\ StatusOf(vcall.cluster).tag = "Reserved"
    /\ Len(vcall.buf) > 1 /\ vret.kind = "Err"

\* Byte p of cluster c: byte p mod bytes_per_sector of logical sector
\* data_start_sector + sectors_per_cluster * (c - 2) + p div bytes_per_sector.
ByteOfCluster(c, p) ==
    disk[data_start_sector + sectors_per_cluster * (c - 2) + (p \div bytes_per_sector)]
        [(p % bytes_per_sector) + 1]

\* C23: for a cluster c >= 2 whose FAT status is Data or Eoc and an offset
\* below cluster_size, read_cluster returns n = min(len(buf), cluster_size -
\* offset); buf[0..n) are the bytes offset .. offset+n of the cluster, the
\* bytes of buf from n on are as they were, and the data sectors asked of
\* the cache are those of the cluster that hold these bytes.
C23_ReadClusterResult ==
    (/\ ClusterRead /\ vcall.cluster >= 2
     /\ StatusOf(vcall.cluster).tag \in {"Data", "Eoc"}
     /\ vcall.offset < cluster_size) =>
        LET n     == Min(Len(vcall.buf), cluster_size - vcall.offset)
            first == data_start_sector + sectors_per_cluster * (vcall.cluster - 2)
        IN  /\ vret.kind = "Ok" /\ vret.n = n
            /\ Len(vret.buf) = Len(vcall.buf)
            /\ \A j \in 1..n :
                  vret.buf[j] = ByteOfCluster(vcall.cluster, vcall.offset + j - 1)
            /\ \A j \in (n + 1)..Len(vcall.buf) : vret.buf[j] = vcall.buf[j]
            /\ \A i \in 2..Len(gets) :
                  /\ gets[i] >= first + (vcall.offset \div bytes_per_sector)
                  /\ gets[i] <= first + ((vcall.offset + (IF n = 0 THEN 0 ELSE n - 1))
                                            \div bytes_per_sector)

\* read_cluster has filled part of a buffer from the middle of a sector and
\* from the sector after it.
C23_Witness ==
    /\ ClusterRead /\ vret.kind = "Ok"
    /\ vcall.offset % bytes_per_sector # 0
    /\ vret.n > bytes_per_sector /\ vret.n < Len(vcall.buf)
    /\ vcall.cluster > 2

\* The clusters of the chain from c when it ends with Eoc after at most
\* `left` clusters, every status before it being Data; else <<>>.
RECURSIVE RefChain(_, _)
RefChain(c, left) ==
    IF left = 0 THEN <<>>
    ELSE IF StatusOf(c).tag = "Eoc" THEN <<c>>
    ELSE IF StatusOf(c).tag = "Data"
      THEN LET r == RefChain(StatusOf(c).val, left - 1)
           IN  IF r = <<>> THEN <<>> ELSE <<c>> \o r
    ELSE <<>>

\* The full contents of the clusters cs, in that order.
RECURSIVE RefContents(_)
RefContents(cs) ==
    IF cs = <<>> THEN <<>> ELSE ClusterBytes(Head(cs)) \o RefContents(Tail(cs))

\* C24: for a start cluster whose chain is c1 -> ... -> ck, ck Eoc and every
\* status before it Data, read_chain(c1, buf) returns k * cluster_size and
\* buf is then what it was, followed by the contents of c1, ..., ck in
\* chain order.
C24_ReadChainResult ==
    (ChainRead /\ RefChain(vcall.cluster, MaxCluster) # <<>>) =>
        LET cs == RefChain(vcall.cluster, MaxCluster)
        IN  /\ vret.kind = "Ok"
            /\ vret.n = Len(cs) * cluster_size
            /\ vret.buf = vcall.buf \o RefContents(cs)

\* read_chain has returned for a chain of several clusters that are not in
\* disk order, on a buffer that held bytes.
C24_Witness ==
    /\ ChainRead /\ vret.kind = "Ok"
    /\ vret.n >= 2 * cluster_size
    /\ Len(vcall.buf) > 0
    /\ StatusOf(vcall.cluster).tag = "Data"
    /\ StatusOf(vcall.cluster).val < vcall.cluster

(***************************************************************************)
(* C25                                                                     *)
(***************************************************************************)
\* C25: no operation calls write_sector on the underlying device or changes
\* what the device holds; a write through the cache changes the cached copy
\* only.
C25_DeviceReadOnly ==
    [][device' = device /\ dev_writes' = <<>>]_vars

\* write_sector has changed the cached copy of a sector of a partition with
\* sectors as long as the device's, which now differs from the device's.
C25_Witness ==
    /\ sector_ret.op = "write_sector" /\ sector_ret.kind = "Ok" /\ sector_ret.n > 0
    /\ partition.sector_size = dev_sector_size
    /\ cache[sector_ret.sector].dirty
    /\ cache[sector_ret.sector].data # device[sector_ret.sector]
    /\ dev_writes = <<>>

(***************************************************************************)
(* C26                                                                     *)
(***************************************************************************)
\* C26: over every sequence of open, entries, find, next, read and seek on
\* the handles of one mount, no access to the mount state is asked for while
\* one is held, and none is held once a call has returned.
C26_ExclusiveAccess ==
    /\ ~reentered
    /\ held <= 1
    /\ pc = "idle" => held = 0

\* A read on the File handle has returned bytes while an iterator with
\* entries left and a Dir that open returned are live.
C26_Witness ==
    /\ pc = "idle" /\ call.op = "read" /\ ret.kind = "Ok" /\ ret.n > 0
    /\ entries # <<>> /\ next > 0 /\ next < Len(entries)
    /\ opened.kind = "Ok"
    /\ held = 0


(***************************************************************************)
(* C27: every alloc of the bin allocator that returns Ok(addr) returns an  *)
(* addr that is not null and is a multiple of layout.align(), and the      *)
(* layout.size() bytes from addr on lie inside the region [start, end)     *)
(* given to Allocator::new, whether the block comes from a bin, from       *)
(* splitting a larger bin block or from the pool.                          *)
(***************************************************************************)
AllocOk == alloc_ret.op = "alloc" /\ alloc_ret.kind = "Ok"
C27_AllocContract ==
    AllocOk =>
        /\ alloc_ret.addr # 0
        /\ alloc_ret.addr % alloc_ret.align = 0
        /\ region.start <= alloc_ret.addr
        /\ alloc_ret.addr + alloc_ret.size <= region.end
\* A block split off a larger bin block, in a region whose start is not
\* aligned.
C27_Witness ==
    /\ AllocOk /\ alloc_ret.from = "split"
    /\ region.start % MIN_BLOCK_SIZE # 0

(***************************************************************************)
(* C28: for a regular entry without a preceding LFN run, the display name  *)
(* is name[0..i), i the index of the first 0x00 or 0x20 byte of the 8-byte *)
(* name field (8 if none), followed, only when the prefix ext[0..j) of the *)
(* extension field cut the same way is not empty, by '.' and that prefix;  *)
(* name and extension are cut independently of each other.                 *)
(***************************************************************************)
\* s up to its first member of stops, all of s when it holds none
CutAt(s, stops) ==
    LET at == {i \in 1..Len(s) : s[i] \in stops} IN
    IF at = {} THEN s ELSE SubSeq(s, 1, (CHOOSE i \in at : \A j \in at : i <= j) - 1)
ShortDisplay(r) ==
    LET nm  == CutAt(file_name(r), {0, 32})
        ext == CutAt(file_ext(r), {0, 32})
    IN  IF ext = <<>> THEN nm ELSE nm \o <<46>> \o ext
\* next() has returned from a call that met a live record at self.next
NextMet ==
    /\ pc \in {"idle", "panicked"} /\ call.op = "next"
    /\ FirstLive(call.next0) < Len(entries)
    /\ id(entries[FirstLive(call.next0) + 1]) # 0
C28_ShortName ==
    (NextMet /\ ~lfn(attributes(entries[FirstLive(call.next0) + 1]))) =>
        /\ ret.kind = "Some"
        /\ Entry_name(ret.entry) = StrOk(ShortDisplay(entries[FirstLive(call.next0) + 1]))


(***************************************************************************)
(* C29: the text one LFN fragment contributes is the sequence of its 13    *)
(* code units, name_part1 then name_part2 then name_part3, cut at the      *)
(* first unit equal to 0x0000 or 0xFFFF: no unit after the first           *)
(* terminator of the 13 contributes, also when the terminator lies in an   *)
(* earlier sub-field than units that are not terminators.  The text is     *)
(* read off the long name of the directory entry the run yields.           *)
(***************************************************************************)
FragmentUnits13(e) == name_part1(e) \o name_part2(e) \o name_part3(e)
RECURSIVE CutRunText(_, _, _)
CutRunText(i, k, p) ==
    IF p > k THEN <<>>
    ELSE CutAt(FragmentUnits13(entries[i + k - p + 1]), {0, 65535}) \o CutRunText(i, k, p + 1)
C29_FragmentTermination ==
    NextMet =>
        LET i == FirstLive(call.next0) IN
        \A k \in 1..MaxRecords :
            (LfnRun(i, k) /\ directory(attributes(entries[i + k + 1]))) =>
                /\ ret.kind = "Some"
                /\ ret.entry.kind = "Dir"
                /\ ret.entry.long_name = SomeStr(CutRunText(i, k, 1))


(***************************************************************************)
(* C30: for every regular entry reached by iteration the yielded Entry is  *)
(* a Dir exactly when attribute bit 0x10 is set and a File otherwise; a    *)
(* Dir carries start_cluster = (first_cluster_high << 16) |                *)
(* first_cluster_low; a File carries file_size equal to the record's size  *)
(* field and the same start_cluster, and starts with absolute_offset = 0   *)
(* and curr_cluster = start_cluster; both carry the short name and the     *)
(* metadata.                                                               *)
(***************************************************************************)
\* The size field of a regular record (below 2^31 in every record explored)
RecordSize(r) == U16At(r, 28) + 65536 * U16At(r, 30)
\* The record (counted from 0) of the regular entry next() met at i: the
\* one after the LFN run when record i starts one
RegularAt(i) ==
    IF lfn(attributes(entries[i + 1])) THEN i + position(entries[i + 1]) ELSE i
CarriesCommon(e, r) ==
    /\ {"short_name", "metadata", "start_cluster"} \subseteq DOMAIN e
    /\ e.short_name = ShortDisplay(r)
    /\ e.metadata = metadata(r)
    /\ e.start_cluster = first_cluster_high(r) * 65536 + first_cluster_low(r)
CarriesFile(e, r) ==
    /\ {"file_size", "absolute_offset", "curr_cluster"} \subseteq DOMAIN e
    /\ e.file_size = RecordSize(r)
    /\ e.absolute_offset = 0
    /\ e.curr_cluster = e.start_cluster
C30_EntryKind ==
    (NextMet /\ ret.kind = "Some") =>
        LET r == entries[RegularAt(FirstLive(call.next0)) + 1] IN
        /\ ret.entry.kind = (IF directory(attributes(r)) THEN "Dir" ELSE "File")
        /\ CarriesCommon(ret.entry, r)
        /\ ret.entry.kind = "File" => CarriesFile(ret.entry, r)


(***************************************************************************)
(* C31: every Entry yielded by iteration takes its short name, attributes, *)
(* timestamps, first cluster and size from a record that is a regular      *)
(* entry: its ID byte is neither 0x00 nor 0xE5 and its attributes are not  *)
(* the LFN marker.  The record after an LFN run is never decoded as the    *)
(* run's regular entry when it is an end marker, a deleted record or       *)
(* another LFN fragment.                                                   *)
(***************************************************************************)
\* next() leaves self.next just after the record it read as the regular one
C31_RegularCompletesRun ==
    (NextMet /\ ret.kind = "Some") =>
        /\ id(entries[next]) \notin {0, 229}
        /\ ~lfn(attributes(entries[next]))


(***************************************************************************)
(* C32: when a directory operation meets a malformed name encoding (an LFN *)
(* fragment whose code units are not decodable, an LFN run whose first     *)
(* stored fragment lacks bit 6 or whose positions are not k, k-1, ..., 1,  *)
(* or an entry whose 8-byte short name is empty or not valid text), it     *)
(* fails with an error of kind InvalidData and does not abort the program. *)
(***************************************************************************)
\* Record i starts an LFN run that is malformed in one of these ways.
BadRun(i) ==
    LET e == entries[i + 1]
        k == position(e)
    IN  /\ lfn(attributes(e))
        /\ \/ ~last_logical(e)
           \/ k = 0
           \/ \E j \in 0..(k - 1) :
                 /\ i + j < Len(entries)
                 /\ LET f == entries[i + j + 1] IN
                    lfn(attributes(f))
                      => (position(f) # k - j \/ VFatLfnDirEntry_name(f).kind = "Err")
\* Record i is a regular entry whose short name is empty or not valid text.
BadShort(i) ==
    /\ ~lfn(attributes(entries[i + 1]))
    /\ VFatRegularDirEntry_name(entries[i + 1]).kind = "Err"
C32_MalformedNameIsInvalidData ==
    (NextMet /\ (BadRun(FirstLive(call.next0)) \/ BadShort(FirstLive(call.next0)))) =>
        /\ pc = "idle"
        /\ ret.kind = "Err" /\ ret.err = "InvalidData"


(***************************************************************************)
(* C33: over any sequence of get, get_mut, read_sector and write_sector    *)
(* calls the device is read for a logical sector only on the first access  *)
(* that succeeds, with f physical reads; every later access to the sector  *)
(* makes no device read and returns the bytes cached then; the set of      *)
(* cached sectors only grows; an access whose device read fails adds no    *)
(* entry and leaves every entry as it is, so that a later access to the    *)
(* sector reads the device again.                                          *)
(***************************************************************************)
\* f of the translation rule for the logical sector s
PhysicalPerLogical(s) ==
    IF dev_sector_size = partition.sector_size \/ s < partition.start THEN 1
    ELSE partition.sector_size \div dev_sector_size
\* One call on the cache, about the sector it names
CacheStep(s) ==
    /\ sector_ret'.sector = s
    /\ DOMAIN cache \subseteq DOMAIN cache'
    /\ \A n \in DOMAIN cache : n # s => cache'[n] = cache[n]
    /\ IF s \in DOMAIN cache
         THEN /\ dev_reads' = <<>>
              /\ sector_ret'.kind = "Ok"
              /\ sector_ret'.op \in {"get", "get_mut"} => sector_ret'.bytes = cache[s].data
              /\ sector_ret'.op = "read_sector" =>
                    \E k \in 0..Len(cache[s].data) :
                        sector_ret'.bytes = SubSeq(cache[s].data, 1, k)
       ELSE IF sector_ret'.kind = "Ok"
         THEN /\ Len(dev_reads') = PhysicalPerLogical(s)
              /\ s \in DOMAIN cache'
       ELSE /\ cache' = cache
            /\ Len(dev_reads') >= 1
C33_FillOnce == [][\E s \in 0..MaxSector : CacheStep(s)]_vars
\* A sector of two physical sectors is in the cache and the last call, on
\* that sector, read nothing from the device.
C33_Witness ==
    /\ sector_ret.op = "read_sector" /\ sector_ret.kind = "Ok" /\ dev_reads = <<>>
    /\ PhysicalPerLogical(sector_ret.sector) = 2
    /\ sector_ret.sector \in DOMAIN cache


(***************************************************************************)
(* C34: read_chain(start, buf) returns, with a result or an error, exactly *)
(* when following the FAT links from start reaches, after finitely many    *)
(* Data links, a cluster whose status is not Data; when the links enter a  *)
(* cycle of Data entries it never returns and buf grows by cluster_size    *)
(* per step, as there is no cycle detection or maximum chain length.       *)
(***************************************************************************)
\* The number of Data links from cluster c to the first cluster whose
\* status is not Data; -1 when there is none within `left` links.
RECURSIVE DataLinks(_, _)
DataLinks(c, left) ==
    IF status(fat_entry(c)).tag # "Data" THEN 0
    ELSE IF left = 0 THEN -1
    ELSE LET rest == DataLinks(status(fat_entry(c)).val, left - 1) IN
         IF rest = -1 THEN -1 ELSE rest + 1
\* More links than there are clusters: the links run into a cycle.
Cyclic(c) == DataLinks(c, MaxCluster + 1) = -1
ChainCalled == vcall.op = "read_chain"
\* A call on a cycle has not returned, and buf has grown by what was read.
CyclicNeverReturns ==
    (ChainCalled /\ Cyclic(vcall.cluster)) =>
        /\ pc = "read_chain" /\ vret.kind = "Pending"
        /\ vtotal % cluster_size = 0
        /\ Len(vbuf) = Len(vcall.buf) + vtotal
\* Each turn of the loop that does not return adds cluster_size bytes.
GrowsByCluster ==
    (pc = "read_chain" /\ pc' = "read_chain") =>
        /\ Len(vbuf') = Len(vbuf) + cluster_size
        /\ vtotal' = vtotal + cluster_size
\* A call on links that end within the chains explored
EndingCall ==
    /\ ChainCalled /\ pc = "read_chain"
    /\ ~Cyclic(vcall.cluster)
    /\ DataLinks(vcall.cluster, MaxCluster + 1) < MaxChain
C34_ReadChainTermination ==
    /\ []CyclicNeverReturns
    /\ [][GrowsByCluster]_vars
    /\ EndingCall ~> (pc = "idle" /\ vret.kind \in {"Ok", "Err"})
\* A call on a cycle that has been round it and is back at its start.
C34_Witness ==
    /\ ChainCalled /\ Cyclic(vcall.cluster) /\ pc = "read_chain"
    /\ vtotal >= 2 * cluster_size /\ vcurr = vcall.cluster


(***************************************************************************)
(* C35: for every File state reachable by reads and seeks and every buffer *)
(* size, if the FAT chain from start_cluster is acyclic then the read call *)
(* returns (Ok or Err) after finitely many loop iterations, also when the  *)
(* chain holds more clusters than file_size requires and the buffer is     *)
(* larger than the bytes remaining in the file.                            *)
(***************************************************************************)
C35_ReadTerminates ==
    (pc = "read" /\ ~Cyclic(start_cluster)) ~> (pc = "idle" /\ ret.kind \in {"Ok", "Err"})


\* C36: the chain walk of seek never takes curr_offset + cluster_size past
\* 2^32 - 1 (the sum neither wraps nor faults), and a seek to an accepted
\* target returns Ok with the handle on the cluster that holds the target,
\* targets in the last cluster_size bytes of the 32-bit range included.
HoldingCluster(target) ==
    start_cluster +
        CHOOSE n \in 0..(MaxWalk - 1) :
            \/ /\ Le32(Ends32(n), target) /\ Lt32(target, Ends32(n + 1))
               /\ n < Covering(file_size)
            \/ n = Covering(file_size) - 1 /\ target = Ends32(n + 1)
C36_SeekWithin32Bits ==
    /\ pc = "seek" => ~WalkEnd(walk_offset, overflow_checks).ovf
    /\ pc # "panicked"
    /\ (pc = "idle" /\ call.op = "seek" /\ Le32(call.v, file_size)) =>
           /\ ret.kind = "Ok"
           /\ absolute_offset = call.v
           /\ curr_cluster = HoldingCluster(call.v)

\* The sectors a call asked the cache for come turn by turn: the sector of
\* the FAT entry, the sectors of the cluster, and in read_chain the sector of
\* the FAT entry again.
GetsAt(places) ==
    {gets[i] : i \in {j \in DOMAIN gets : (j - 1) % (sectors_per_cluster + 2) \in places}}
DataGets == GetsAt(1..sectors_per_cluster)
FatGets  == GetsAt({0, sectors_per_cluster + 1})

\* C37: for every cluster number, 0 and 1 included, read_cluster and
\* read_chain never evaluate cluster - 2 with cluster < 2 (no call faults on
\* that subtraction), and every sector of a cluster they ask the cache for
\* is at or after data_start_sector.
C37_ReservedClustersNeverAddressData ==
    /\ vret.err # "attempt to subtract with overflow"
    /\ \A s \in DataGets : s >= data_start_sector

\* C38: the sector fat_entry asks the cache for is fat_start_sector +
\* (cluster * 4) div bytes_per_sector, it lies within the first FAT, and
\* read_cluster on a cluster number beyond the FAT's capacity returns an
\* error.
BeyondFat(cluster) == cluster * FAT_ENTRY_SIZE >= sectors_per_fat * bytes_per_sector
C38_FatLookupsInsideFat ==
    /\ gets # <<>> =>
           gets[1] = fat_start_sector
                       + (vcall.cluster * FAT_ENTRY_SIZE) \div bytes_per_sector
    /\ \A s \in FatGets : s >= fat_start_sector /\ s < fat_start_sector + sectors_per_fat
    /\ (vcall.op = "read_cluster" /\ BeyondFat(vcall.cluster)) => vret.kind = "Err"

\* C40: the ranges [addr, addr + layout.size()) of the live allocations are
\* pairwise disjoint, none of them overlaps a block of a bin's free list or
\* a node of the pool's free list, and an alloc never hands out the address
\* and layout of an allocation that is live.
Range(lo, size) == [lo |-> lo, hi |-> lo + size]
Overlap(r, q) == r.lo < q.hi /\ q.lo < r.hi
LiveRange(a) == Range(a.addr, a.layout.size)
PoolRanges == {Range(pool[k].addr, pool[k].size) : k \in DOMAIN pool}
FreeRangesOf(i) == {Range(bins[i][k], bin_block_size(i)) : k \in DOMAIN bins[i]}
FreeRanges == UNION {FreeRangesOf(i) : i \in DOMAIN bins} \cup PoolRanges
NoOverlap ==
    /\ \A a, b \in allocated : a # b => ~Overlap(LiveRange(a), LiveRange(b))
    /\ \A a \in allocated : \A f \in FreeRanges : ~Overlap(LiveRange(a), f)
FreshBlock ==
    (alloc_ret'.op = "alloc" /\ alloc_ret'.kind = "Ok") => allocated' # allocated
C40_NoOverlap == []NoOverlap /\ [][FreshBlock]_vars
C40_Witness ==
    /\ alloc_ret.op = "alloc" /\ alloc_ret.kind = "Ok" /\ alloc_ret.from = "split"
    /\ Cardinality(allocated) >= 2
    /\ BinBlocks(bins, 0) >= 2

\* C39: with two Files and a Dir live on one mount and their calls
\* interleaved in any order, a call on one handle leaves the offset and the
\* cluster of the other File unchanged; every sector the cache hands out is
\* what a freshly mounted filesystem reads for it, so that each read returns
\* the bytes of its own file from its own offset, each seek puts its handle
\* on the cluster of its own chain and each entries call yields the records
\* of the directory, whatever the other handles did before; and dropping a
\* File changes neither the cache nor the other handles.
Coherent == \A s \in DOMAIN disk : device_get(s) = disk[s]
OthersKept ==
    \/ handles' = handles
    \/ /\ handles # <<>> /\ handles' = <<Self>> /\ Self' = handles[1]
       /\ UNCHANGED <<cache, dirVars>>
    \/ /\ handles' = <<>> /\ Self' = Self
       /\ UNCHANGED <<cache, dirVars>>
ReadAlone ==
    (pc = "read" /\ pc' = "idle") =>
        /\ ret'.kind = "Ok"
        /\ ret'.bytes = SubSeq(ChainBytes(ClustersNeeded), call.off0 + 1,
                               call.off0 + ret'.n)
        /\ absolute_offset' = call.off0 + ret'.n
SeekAlone ==
    (pc = "idle" /\ pc' = "idle" /\ handles' = handles /\ call'.op = "seek") =>
        IF call'.v.d <= file_size
          THEN /\ ret'.kind = "Ok" /\ ret'.n = call'.v.d
               /\ absolute_offset' = call'.v.d
               /\ curr_cluster' = Follow(start_cluster, call'.v.d \div cluster_size)
          ELSE /\ ret'.kind = "Err" /\ ret'.err = "InvalidInput"
               /\ Self' = Self
EntriesAlone ==
    (pc = "chain" /\ pc' # "chain") =>
        /\ pc' \in {"idle", "find"}
        /\ entries' = cast(ClusterBytes(dir_start))
C39_HandlesIndependent ==
    []Coherent /\ [][OthersKept /\ ReadAlone /\ SeekAlone /\ EntriesAlone]_vars
\* A.TXT is open twice; the other File has been read from, the Dir has been
\* listed, and a read on this File from offset 0 was served from the cache.
C39_Witness ==
    /\ handles # <<>> /\ handles[1].start_cluster = 4 /\ handles[1].absolute_offset > 0
    /\ entries # <<>>
    /\ Returned /\ ret.kind = "Ok" /\ call.off0 = 0 /\ ret.n = 30 /\ absolute_offset = 30
    /\ 8 \in DOMAIN cache

====
